---- MODULE Spec2Model ----
(***************************************************************************)
(* Ticket store of tkr (apps/active/cli/ticketr/core/src/ticket.rs) and    *)
(* the HTTP update handler (src/web.rs), modelled over an abstract         *)
(* filesystem: one store root "." holding flat documents and seven status  *)
(* directories holding <id>.md documents.                                  *)
(***************************************************************************)
EXTENDS Integers, Sequences, FiniteSets, TLC

VARIABLES
    files,      \* files[dir][id]: the document stored at <dir>/<id>.md, or NoFile
    dirs,       \* the status directories that exist under the store root
    now,        \* the last instant Utc::now() returned
    pc,         \* position inside move_ticket_to_status ("idle" between calls)
    cur,        \* locals of the running move_ticket_to_status call
    res,        \* the last call that returned: operation, arguments, outcome
    listed,     \* what the last list_tickets call enumerated and returned; for
                \* search_tickets, the list it filtered and what it returned
    calls,      \* the number of store calls made so far
    got,        \* the ticket the last call loaded and the dependency it named
    proc,       \* the ticket a second process holds between its load (call number
                \* `at`) and its save
    killed,     \* the moves that were killed between their write and their removal
    web,        \* the HTTP handler: the holder of the manager lock and, for each
                \* PUT request, its position and its locals
    walk,       \* find_tickets_dir: the working directory with its ancestors, the
                \* repo_root argument and what the call returned
    resolved    \* the last path resolution: the id, the status hint and the
                \* path that came back

vars == <<files, dirs, now, pc, cur, res, listed, calls, got, proc, killed, web, walk, resolved>>

----------------------------------------------------------------------------
(* Bounds *)

MaxTime == 1
MaxCalls == 3

(* Identifiers are character strings; the second starts with the first. *)
IdA  == <<"a">>
IdAB == <<"a", "b">>
Ids  == {IdA, IdAB}

(* Titles are token strings; "---" is the block-separator marker. *)
Plain   == <<"T">>
WithSep == <<"T", "---">>
Titles  == {Plain, WithSep}

(* A second title and a description, both free of the marker. *)
Retitled  == <<"U">>
PlainDesc == <<"d">>

(* A description with a marker inside (a horizontal rule) and one that is  *)
(* nothing but the marker.                                                 *)
SepDesc  == <<"d", "---", "e">>
OnlySep  == <<"---">>

(* The tags a store can be configured with. *)
Tags == {<<"p">>, <<"q">>}

(* Note texts, token strings too. *)
PlainNote == <<"n">>
SepNote   == <<"n", "---", "m">>
NoteTexts == {PlainNote, SepNote}

----------------------------------------------------------------------------
(* Layout *)

StatusOrder == <<"open", "in_progress", "closed", "blocked", "ready", "icebox", "archive">>

Statuses == {StatusOrder[i] : i \in 1..Len(StatusOrder)}

(* Status strings outside the enumeration that callers can pass: the empty *)
(* string and a name for which no directory exists.                        *)
BadStatuses == {"", "done"}

(* The status strings the modelled callers pass. *)
StatusArgs == {"open", "closed", "blocked"} \cup BadStatuses

Root == "."

Missing == "?"

DirNames == Statuses \cup {Root}

NoFile == [kind |-> "none"]

(* Option<T>: None, or Some(x). *)
Some(x) == <<x>>

None == <<>>

NoTicket ==
    [id |-> <<>>, title |-> <<>>, status |-> "", deps |-> <<>>, created |-> 0,
     description |-> None, project |-> None, category |-> None, notes |-> <<>>]

(* tickets_dir.join(status): the empty string joins to the root itself, a  *)
(* valid status to its directory, any other name to a directory the store  *)
(* never creates.                                                          *)
get_status_dir(status) ==
    IF status \in Statuses THEN status
    ELSE IF status = "" THEN Root
    ELSE Missing

Path(dir, name) == [dir |-> dir, name |-> name]

IsFile(doc) == doc # NoFile

Contains(s, x) == \E i \in 1..Len(s) : s[i] = x

Exists(fs, p) == p.dir \in DirNames /\ p.name \in Ids /\ fs[p.dir][p.name] # NoFile

Present(fs, dir) == {i \in Ids : fs[dir][i] # NoFile}

FileName(id) == id \o <<".md">>

starts_with(s, p) == Len(p) <= Len(s) /\ SubSeq(s, 1, Len(p)) = p

ends_with_md(s) == Len(s) >= 1 /\ s[Len(s)] = ".md"

----------------------------------------------------------------------------
(* Codec *)

ContainsSep(text) == \E i \in 1..Len(text) : text[i] = "---"

FirstSep(text) ==
    IF ContainsSep(text)
    THEN CHOOSE i \in 1..Len(text) : text[i] = "---" /\ \A j \in 1..(i - 1) : text[j] # "---"
    ELSE 0

(* The metadata block holds the fields in declaration order (id, title,    *)
(* status, deps, created, ..., description, ..., project, category, notes) *)
(* with every text written verbatim and an absent optional field left out; *)
(* title, description and notes are repeated in the body, which            *)
(* load_ticket never reads.                                                *)
Encode(t) ==
    [kind |-> "current", id |-> t.id, title |-> t.title, status |-> t.status,
     deps |-> t.deps, created |-> t.created, description |-> t.description,
     project |-> t.project, category |-> t.category, notes |-> t.notes]

SepIn(opt) == opt # None /\ ContainsSep(opt[1])

Cut(text) == SubSeq(text, 1, FirstSep(text) - 1)

(* The texts of the metadata block that follow the required fields, in the *)
(* order they are written.                                                 *)
OptTexts(doc) ==
    doc.description \o doc.project \o doc.category
        \o [i \in 1..Len(doc.notes) |-> doc.notes[i].content]

(* What is left of the notes when the metadata block ends at the first     *)
(* marker inside a note: the note is cut there, the later ones are gone.   *)
RECURSIVE CutNotes(_)
CutNotes(notes) ==
    IF notes = <<>> THEN <<>>
    ELSE IF ContainsSep(Head(notes).content)
         THEN <<[Head(notes) EXCEPT
                    !.content = SubSeq(Head(notes).content, 1,
                                       FirstSep(Head(notes).content) - 1)]>>
         ELSE <<Head(notes)>> \o CutNotes(Tail(notes))

(* splitn(3, "---") cuts the document at the first two markers; a marker   *)
(* inside the title ends the metadata block before `status`, and the       *)
(* mapping no longer parses; so does a later text that is cut to nothing.  *)
Decodable(doc) ==
    /\ doc.kind = "current"
    /\ ~ContainsSep(doc.title)
    /\ ~\E i \in 1..Len(OptTexts(doc)) :
           /\ FirstSep(OptTexts(doc)[i]) = 1
           /\ \A j \in 1..(i - 1) : ~ContainsSep(OptTexts(doc)[j])

(* The mapping that is left when the metadata block ends at the first      *)
(* marker: the text holding it is cut there, the fields after it are       *)
(* absent.                                                                 *)
Decode(doc) ==
    LET base == [id |-> doc.id, title |-> doc.title, status |-> doc.status,
                 deps |-> doc.deps, created |-> doc.created,
                 description |-> None, project |-> None, category |-> None,
                 notes |-> <<>>]
    IN  IF SepIn(doc.description)
        THEN [base EXCEPT !.description = Some(Cut(doc.description[1]))]
        ELSE IF SepIn(doc.project)
             THEN [base EXCEPT !.description = doc.description,
                               !.project = Some(Cut(doc.project[1]))]
             ELSE IF SepIn(doc.category)
                  THEN [base EXCEPT !.description = doc.description,
                                    !.project = doc.project,
                                    !.category = Some(Cut(doc.category[1]))]
                  ELSE [base EXCEPT !.description = doc.description,
                                    !.project = doc.project,
                                    !.category = doc.category,
                                    !.notes = CutNotes(doc.notes)]

----------------------------------------------------------------------------
(* Path resolver *)

(* The paths ticket_path can return: the exact root path when it exists,   *)
(* else any root entry whose name starts with id (listing order is the     *)
(* filesystem's), else the non-existent exact path.                        *)
ticket_path(fs, id) ==
    IF Exists(fs, Path(Root, id)) THEN {Path(Root, id)}
    ELSE LET m == {i \in Present(fs, Root) :
                      starts_with(FileName(i), id) /\ ends_with_md(FileName(i))}
         IN  IF m # {} THEN {Path(Root, i) : i \in m}
             ELSE {Path(Root, id)}

(* A resolver that scans the hinted directory for a prefix match before it *)
(* looks for the exact name.                                               *)
ticket_path_by_status_scanning(fs, id, status) ==
    LET d == get_status_dir(status)
        m == IF d \in DirNames
             THEN {i \in Present(fs, d) :
                      starts_with(FileName(i), id) /\ ends_with_md(FileName(i))}
             ELSE {}
    IN  IF m # {} THEN {Path(d, i) : i \in m}
        ELSE ticket_path(fs, id)

ticket_path_by_status(fs, id, status) ==
    LET d == get_status_dir(status)
    IN  IF Exists(fs, Path(d, id)) THEN {Path(d, id)}
        ELSE LET m == IF d \in DirNames
                      THEN {i \in Present(fs, d) :
                               starts_with(FileName(i), id) /\ ends_with_md(FileName(i))}
                      ELSE {}
             IN  IF m # {} THEN {Path(d, i) : i \in m}
                 ELSE ticket_path(fs, id)

(* The outcomes of load_ticket(id). *)
load_ticket(fs, id) ==
    {IF ~Exists(fs, p) THEN [ok |-> FALSE, err |-> "NotFound", t |-> NoTicket]
     ELSE IF ~Decodable(fs[p.dir][p.name])
          THEN [ok |-> FALSE, err |-> "FormatError", t |-> NoTicket]
          ELSE [ok |-> TRUE, err |-> "", t |-> Decode(fs[p.dir][p.name])]
     : p \in ticket_path(fs, id)}

----------------------------------------------------------------------------
(* Writing *)

(* A layout step that sets the directory set to the seven names. *)
ensure_status_directories_resetting(ds) == Statuses

(* The loop of ensure_status_directories from the k-th status on: a        *)
(* directory that is missing is created, one that exists is left alone.    *)
RECURSIVE EnsureFrom(_, _)
EnsureFrom(ds, k) ==
    IF k > Len(StatusOrder) THEN ds
    ELSE EnsureFrom(IF StatusOrder[k] \in ds THEN ds ELSE ds \cup {StatusOrder[k]},
                    k + 1)

ensure_status_directories(ds) == EnsureFrom(ds, 1)

(* save_ticket writes <status dir>/<ticket.id>.md; fs::write fails when    *)
(* the directory does not exist.                                           *)
CanSave(t) == get_status_dir(t.status) \in DirNames

save_ticket(fs, t) ==
    [fs EXCEPT ![get_status_dir(t.status)][t.id] = Encode(t)]

remove_file(fs, p) == [fs EXCEPT ![p.dir][p.name] = NoFile]

validate_status(status) == status \in Statuses

Result(op, arg, st, out) == [op |-> op, arg |-> arg, st |-> st, out |-> out]

NoList == [enum |-> <<>>, out |-> <<>>]

NoCur == [arg |-> <<>>, st |-> "", ticket |-> NoTicket, all |-> <<>>, idx |-> 0,
          upd |-> NoTicket]

NoGot == [t |-> NoTicket, dep |-> <<>>]

NoProc == [op |-> "none", arg |-> <<>>, ticket |-> NoTicket, out |-> "", at |-> 0]

NoUpdate == [status |-> None, title |-> None, description |-> None]

NoRequest == [pc |-> "none", id |-> <<>>, update |-> NoUpdate, ticket |-> NoTicket,
              out |-> ""]

Requests == {1, 2}

NoWeb == [lock |-> 0, req |-> [k \in Requests |-> NoRequest]]

NoWalk == [tree |-> <<>>, repo_root |-> None, out |-> None, err |-> ""]

NoResolved == [id |-> <<>>, hint |-> None, out |-> None]

----------------------------------------------------------------------------
(* Listing *)

RECURSIVE Perms(_)
Perms(S) ==
    IF S = {} THEN {<<>>}
    ELSE UNION {{<<x>> \o p : p \in Perms(S \ {x})} : x \in S}

(* One directory scan in the given listing order: every entry is loaded by *)
(* its file stem through load_ticket; entries that fail to load are        *)
(* skipped.                                                                *)
RECURSIVE LoadAll(_, _, _)
LoadAll(fs, d, order) ==
    IF order = <<>> THEN {<<>>}
    ELSE LET heads == {IF r.ok THEN <<[dir |-> d, fid |-> Head(order), t |-> r.t]>>
                       ELSE <<>> : r \in load_ticket(fs, Head(order))}
         IN  {h \o r : h \in heads, r \in LoadAll(fs, d, Tail(order))}

RECURSIVE EnumFrom(_, _)
EnumFrom(fs, k) ==
    IF k > Len(StatusOrder) THEN {<<>>}
    ELSE LET here == UNION {LoadAll(fs, StatusOrder[k], o) :
                               o \in Perms(Present(fs, StatusOrder[k]))}
         IN  {a \o b : a \in here, b \in EnumFrom(fs, k + 1)}

Tagged(e) ==
    [i \in 1..Len(e) |-> [dir |-> e[i].dir, fid |-> e[i].fid, t |-> e[i].t, k |-> i]]

(* tickets.sort_by(|a, b| b.created.cmp(&a.created)): a stable sort,       *)
(* newest first.                                                           *)
(* A sort that is not stable: an element goes in front of its equals. *)
RECURSIVE InsertDescUnstable(_, _)
InsertDescUnstable(s, x) ==
    IF s = <<>> THEN <<x>>
    ELSE IF Head(s).t.created > x.t.created
         THEN <<Head(s)>> \o InsertDescUnstable(Tail(s), x)
         ELSE <<x>> \o s

RECURSIVE InsertDesc(_, _)
InsertDesc(s, x) ==
    IF s = <<>> THEN <<x>>
    ELSE IF Head(s).t.created >= x.t.created
         THEN <<Head(s)>> \o InsertDesc(Tail(s), x)
         ELSE <<x>> \o s

RECURSIVE SortFrom(_, _)
SortFrom(acc, s) ==
    IF s = <<>> THEN acc ELSE SortFrom(InsertDesc(acc, Head(s)), Tail(s))

sort_by_created(s) == SortFrom(<<>>, s)

(* The results list_tickets can return, with the enumeration they came     *)
(* from.                                                                   *)
ListResults(fs) ==
    {[enum |-> Tagged(e), out |-> sort_by_created(Tagged(e))] : e \in EnumFrom(fs, 1)}

TicketsOf(out) == [i \in 1..Len(out) |-> out[i].t]

(* char::to_lowercase on the letters the model uses. *)
Lower(c) ==
    CASE c = "A" -> "a"
      [] c = "D" -> "d"
      [] c = "T" -> "t"
      [] c = "U" -> "u"
      [] OTHER -> c

to_lowercase(text) == [i \in 1..Len(text) |-> Lower(text[i])]

(* str::contains: pat occurs in text as a contiguous piece. *)
contains(text, pat) ==
    \E i \in 0..(Len(text) - Len(pat)) : SubSeq(text, i + 1, i + Len(pat)) = pat

(* A filter that compares the texts as they are. *)
search_filter_exact(ticket, query_lower) ==
    \/ contains(ticket.title, query_lower)
    \/ (ticket.description # None /\ contains(ticket.description[1], query_lower))
    \/ contains(ticket.id, query_lower)

(* The filter closure of search_tickets. *)
search_filter(ticket, query_lower) ==
    \/ contains(to_lowercase(ticket.title), query_lower)
    \/ (ticket.description # None
          /\ contains(to_lowercase(ticket.description[1]), query_lower))
    \/ contains(to_lowercase(ticket.id), query_lower)

RECURSIVE Filter(_, _)
Filter(s, query_lower) ==
    IF s = <<>> THEN <<>>
    ELSE IF search_filter(Head(s).t, query_lower)
         THEN <<Head(s)>> \o Filter(Tail(s), query_lower)
         ELSE Filter(Tail(s), query_lower)

----------------------------------------------------------------------------
(* Initial store: a root that may hold flat current-format documents, no   *)
(* status directory yet.                                                   *)

InitStatuses == {"open", "blocked"}

FlatDocs(id) ==
    {Encode([id |-> id, title |-> Plain, status |-> s, deps |-> d, created |-> c,
             description |-> None, project |-> None, category |-> None,
             notes |-> <<>>]) :
        s \in InitStatuses,
        d \in {<<>>} \cup {<<j>> : j \in Ids \ {id}},
        c \in 0..(Len(id) - 1)}

Init ==
    /\ \E flat \in [Ids -> UNION {FlatDocs(i) : i \in Ids} \cup {NoFile}] :
         /\ \A i \in Ids : flat[i] \in FlatDocs(i) \cup {NoFile}
         /\ files = [d \in DirNames |->
                       IF d = Root THEN flat ELSE [i \in Ids |-> NoFile]]
    /\ dirs = {}
    /\ now = 1
    /\ pc = "idle"
    /\ cur = NoCur
    /\ res = Result("none", <<>>, "", "")
    /\ listed = NoList
    /\ calls = 0
    /\ got = NoGot
    /\ proc = NoProc
    /\ killed = {}
    /\ web = NoWeb
    /\ walk = NoWalk
    /\ resolved = NoResolved

----------------------------------------------------------------------------
(* Operations *)

Idle == pc = "idle" /\ calls < MaxCalls

Fail(op, id, st, err) ==
    /\ res' = Result(op, id, st, err)
    /\ listed' = NoList
    /\ UNCHANGED <<files, dirs, now, pc, cur>>

create_ticket(title, project, category) ==
    /\ Idle
    /\ calls' = calls + 1
    /\ got' = NoGot
    /\ UNCHANGED <<proc, killed, web, walk, resolved>>
    /\ \E id \in Ids, at \in now..MaxTime :
         LET ticket == [id |-> id, title |-> title, status |-> "open",
                        deps |-> <<>>, created |-> at, description |-> None,
                        project |-> project, category |-> category,
                        notes |-> <<>>]
         IN  /\ files' = save_ticket(files, ticket)
             /\ dirs' = ensure_status_directories(dirs)
             /\ now' = at
             /\ res' = Result("create", id, "open", "ok")
             /\ listed' = NoList
             /\ UNCHANGED <<pc, cur>>

(* A status change that stamps the ticket anew. *)
update_status_restamp(id, status) ==
    /\ Idle
    /\ calls' = calls + 1
    /\ got' = NoGot
    /\ UNCHANGED <<proc, killed, web, walk, resolved>>
    /\ \E r \in load_ticket(files, id) :
         IF ~r.ok THEN Fail("update_status", id, status, r.err)
         ELSE IF ~validate_status(status)
              THEN Fail("update_status", id, status, "InvalidStatus")
              ELSE /\ files' = save_ticket(files, [r.t EXCEPT !.status = status,
                                                              !.created = now])
                   /\ dirs' = ensure_status_directories(dirs)
                   /\ res' = Result("update_status", id, status, "ok")
                   /\ listed' = NoList
                   /\ UNCHANGED <<now, pc, cur>>

update_status(id, status) ==
    /\ Idle
    /\ calls' = calls + 1
    /\ got' = NoGot
    /\ UNCHANGED <<proc, killed, web, walk, resolved>>
    /\ \E r \in load_ticket(files, id) :
         IF ~r.ok THEN Fail("update_status", id, status, r.err)
         ELSE IF ~validate_status(status)
              THEN Fail("update_status", id, status, "InvalidStatus")
              ELSE /\ files' = save_ticket(files, [r.t EXCEPT !.status = status])
                   /\ dirs' = ensure_status_directories(dirs)
                   /\ res' = Result("update_status", id, status, "ok")
                   /\ listed' = NoList
                   /\ UNCHANGED <<now, pc, cur>>

list_tickets ==
    /\ Idle
    /\ calls' = calls + 1
    /\ got' = NoGot
    /\ UNCHANGED <<proc, killed, web, walk, resolved>>
    /\ \E l \in ListResults(files) :
         /\ listed' = l
         /\ dirs' = ensure_status_directories(dirs)
         /\ res' = Result("list", <<>>, "", "ok")
         /\ UNCHANGED <<files, now, pc, cur>>

search_tickets(query) ==
    /\ Idle
    /\ calls' = calls + 1
    /\ got' = NoGot
    /\ UNCHANGED <<proc, killed, web, walk, resolved>>
    /\ \E l \in ListResults(files) :
         /\ listed' = [enum |-> l.out, out |-> Filter(l.out, to_lowercase(query))]
         /\ dirs' = ensure_status_directories(dirs)
         /\ res' = Result("search", query, "", "ok")
         /\ UNCHANGED <<files, now, pc, cur>>

(* An add_dependency that pushes dep_id without looking at the list. *)
add_dependency_pushing(id, dep_id) ==
    /\ Idle
    /\ calls' = calls + 1
    /\ UNCHANGED <<proc, killed, web, walk, resolved>>
    /\ \E r \in load_ticket(files, id) :
         /\ got' = [t |-> r.t, dep |-> dep_id]
         /\ IF ~r.ok THEN Fail("add_dependency", id, "", r.err)
            ELSE LET ticket == [r.t EXCEPT !.deps = Append(r.t.deps, dep_id)]
                 IN  /\ dirs' = ensure_status_directories(dirs)
                     /\ files' = IF CanSave(ticket) THEN save_ticket(files, ticket)
                                 ELSE files
                     /\ res' = Result("add_dependency", id, "",
                                      IF CanSave(ticket) THEN "ok" ELSE "IOError")
                     /\ listed' = NoList
                     /\ UNCHANGED <<now, pc, cur>>

add_dependency(id, dep_id) ==
    /\ Idle
    /\ calls' = calls + 1
    /\ UNCHANGED <<proc, killed, web, walk, resolved>>
    /\ \E r \in load_ticket(files, id) :
         /\ got' = [t |-> r.t, dep |-> dep_id]
         /\ IF ~r.ok THEN Fail("add_dependency", id, "", r.err)
            ELSE IF \E i \in 1..Len(r.t.deps) : r.t.deps[i] = dep_id
                 THEN Fail("add_dependency", id, "", "exists")
                 ELSE LET ticket == [r.t EXCEPT !.deps = Append(r.t.deps, dep_id)]
                      IN  /\ dirs' = ensure_status_directories(dirs)
                          /\ files' = IF CanSave(ticket) THEN save_ticket(files, ticket)
                                      ELSE files
                          /\ res' = Result("add_dependency", id, "",
                                           IF CanSave(ticket) THEN "ok" ELSE "IOError")
                          /\ listed' = NoList
                          /\ UNCHANGED <<now, pc, cur>>

(* deps.remove(pos) for the first position holding dep_id. *)
RemoveAt(s, pos) == SubSeq(s, 1, pos - 1) \o SubSeq(s, pos + 1, Len(s))

Position(s, x) ==
    IF \E i \in 1..Len(s) : s[i] = x
    THEN CHOOSE i \in 1..Len(s) : s[i] = x /\ \A j \in 1..(i - 1) : s[j] # x
    ELSE 0

remove_dependency(id, dep_id) ==
    /\ Idle
    /\ calls' = calls + 1
    /\ UNCHANGED <<proc, killed, web, walk, resolved>>
    /\ \E r \in load_ticket(files, id) :
         /\ got' = [t |-> r.t, dep |-> dep_id]
         /\ IF ~r.ok THEN Fail("remove_dependency", id, "", r.err)
            ELSE IF Position(r.t.deps, dep_id) = 0
                 THEN Fail("remove_dependency", id, "", "absent")
                 ELSE LET ticket == [r.t EXCEPT
                                       !.deps = RemoveAt(r.t.deps, Position(r.t.deps, dep_id))]
                      IN  /\ dirs' = ensure_status_directories(dirs)
                          /\ files' = IF CanSave(ticket) THEN save_ticket(files, ticket)
                                      ELSE files
                          /\ res' = Result("remove_dependency", id, "",
                                           IF CanSave(ticket) THEN "ok" ELSE "IOError")
                          /\ listed' = NoList
                          /\ UNCHANGED <<now, pc, cur>>

(* The fields a PUT body sets, stored as given. *)
Apply(t, update) ==
    [t EXCEPT !.status = IF update.status = None THEN @ ELSE update.status[1],
              !.title = IF update.title = None THEN @ ELSE update.title[1],
              !.description = IF update.description = None THEN @
                              ELSE update.description]

(* PUT /api/tickets/<id>, the handler as a whole: it holds the write lock  *)
(* of the manager from its first statement to its return.                  *)
update_ticket(id, update) ==
    /\ Idle
    /\ calls' = calls + 1
    /\ got' = NoGot
    /\ UNCHANGED <<proc, killed, web, walk, resolved>>
    /\ \E r \in load_ticket(files, id) :
         IF ~r.ok THEN Fail("update_ticket", id, "", "NotFound")
         ELSE LET ticket == Apply(r.t, update)
              IN  /\ dirs' = ensure_status_directories(dirs)
                  /\ files' = IF CanSave(ticket) THEN save_ticket(files, ticket)
                              ELSE files
                  /\ res' = Result("update_ticket", id, ticket.status,
                                   IF CanSave(ticket) THEN "ok" ELSE "IOError")
                  /\ listed' = NoList
                  /\ UNCHANGED <<now, pc, cur>>

(* A note append that stamps the ticket with tags of its own. *)
add_note_retagging(id, note_content) ==
    /\ Idle
    /\ calls' = calls + 1
    /\ UNCHANGED <<proc, killed, web, walk, resolved>>
    /\ \E r \in load_ticket(files, id) :
         /\ got' = [t |-> r.t, dep |-> <<>>]
         /\ IF ~r.ok THEN Fail("add_note", id, "", r.err)
            ELSE \E at \in now..MaxTime, tag \in Tags :
                   LET note == [timestamp |-> at, content |-> note_content]
                       ticket == [r.t EXCEPT !.notes = Append(r.t.notes, note),
                                             !.project = Some(tag)]
                   IN  /\ dirs' = ensure_status_directories(dirs)
                       /\ files' = IF CanSave(ticket) THEN save_ticket(files, ticket)
                                   ELSE files
                       /\ now' = at
                       /\ res' = Result("add_note", id, "",
                                        IF CanSave(ticket) THEN "ok" ELSE "IOError")
                       /\ listed' = NoList
                       /\ UNCHANGED <<pc, cur>>

add_note(id, note_content) ==
    /\ Idle
    /\ calls' = calls + 1
    /\ UNCHANGED <<proc, killed, web, walk, resolved>>
    /\ \E r \in load_ticket(files, id) :
         /\ got' = [t |-> r.t, dep |-> <<>>]
         /\ IF ~r.ok THEN Fail("add_note", id, "", r.err)
            ELSE \E at \in now..MaxTime :
                   LET note == [timestamp |-> at, content |-> note_content]
                       ticket == [r.t EXCEPT !.notes = Append(r.t.notes, note)]
                   IN  /\ dirs' = ensure_status_directories(dirs)
                       /\ files' = IF CanSave(ticket) THEN save_ticket(files, ticket)
                                   ELSE files
                       /\ now' = at
                       /\ res' = Result("add_note", id, "",
                                        IF CanSave(ticket) THEN "ok" ELSE "IOError")
                       /\ listed' = NoList
                       /\ UNCHANGED <<pc, cur>>

(* show_ticket: load_ticket(id), then the resolved file is printed. *)
show_ticket(id) ==
    /\ Idle
    /\ calls' = calls + 1
    /\ UNCHANGED <<proc, killed, web, walk, resolved>>
    /\ \E r \in load_ticket(files, id) :
         /\ got' = [t |-> r.t, dep |-> <<>>]
         /\ res' = Result("show", id, "", IF r.ok THEN "ok" ELSE r.err)
         /\ listed' = NoList
         /\ UNCHANGED <<files, dirs, now, pc, cur>>

(* A call of ensure_status_directories by itself. *)
ensure_status_directories_call ==
    /\ Idle
    /\ calls' = calls + 1
    /\ dirs' = ensure_status_directories(dirs)
    /\ res' = Result("layout", <<>>, "", "ok")
    /\ listed' = NoList
    /\ got' = NoGot
    /\ UNCHANGED <<files, now, pc, cur, proc, killed, web, walk, resolved>>

(* One path resolution: ticket_path_by_status(id, status) when the caller  *)
(* has a status at hand, ticket_path(id) when it has none.                 *)
resolve(id, status_hint) ==
    /\ \E p \in IF status_hint = None THEN ticket_path(files, id)
                  ELSE ticket_path_by_status(files, id, status_hint[1]) :
         resolved' = [id |-> id, hint |-> status_hint, out |-> Some(p)]
    /\ UNCHANGED <<files, dirs, now, pc, cur, res, listed, calls, got, proc, killed,
                   web, walk>>

----------------------------------------------------------------------------
(* Store root resolution (utils.rs).  tree[k] is the set of entries of the *)
(* k-th directory on the way from the filesystem root (k = 1) to the       *)
(* working directory (k = Len(tree)); level 0 stands for a directory that  *)
(* does not exist.                                                         *)

Locations == <<".tickets", "tickets", ".ticket", "ticket">>

At(level, name) == [level |-> level, name |-> name]

DirExists(tree, k) == k \in 1..Len(tree)

(* location.exists() || location.parent().is_some_and(|p| p.exists()) *)
LocationFound(tree, base, i) ==
    \/ (DirExists(tree, base) /\ Locations[i] \in tree[base])
    \/ DirExists(tree, base)

RECURSIVE CheckFrom(_, _, _)
CheckFrom(tree, base, i) ==
    IF i > Len(Locations) THEN None
    ELSE IF LocationFound(tree, base, i) THEN Some(At(base, Locations[i]))
         ELSE CheckFrom(tree, base, i + 1)

check_tickets_locations(tree, base) == CheckFrom(tree, base, 1)

(* The loop of find_tickets_dir: check, then pop, until the filesystem     *)
(* root; then the fallback <cwd>/.tickets.                                 *)
RECURSIVE WalkUp(_, _)
WalkUp(tree, current) ==
    IF check_tickets_locations(tree, current) # None
    THEN check_tickets_locations(tree, current)
    ELSE IF current > 1 THEN WalkUp(tree, current - 1)
         ELSE Some(At(Len(tree), ".tickets"))

find_tickets_dir(repo_root) ==
    /\ walk.out = None
    /\ walk.err = ""
    /\ walk' = IF repo_root # None
               THEN IF check_tickets_locations(walk.tree, repo_root[1]) # None
                    THEN [walk EXCEPT !.repo_root = repo_root,
                                      !.out = check_tickets_locations(walk.tree,
                                                                      repo_root[1])]
                    ELSE [walk EXCEPT !.repo_root = repo_root,
                                      !.err = "No tickets directory found"]
               ELSE [walk EXCEPT !.out = WalkUp(walk.tree, Len(walk.tree))]
    /\ UNCHANGED <<files, dirs, now, pc, cur, res, listed, calls, got, proc, killed,
                   web, resolved>>

----------------------------------------------------------------------------
(* Migration *)

(* detect_migration_source returns "bash-tk" at the first document of the  *)
(* root that does not start with the marker, and "bash-tk" again when the  *)
(* scan found none.                                                        *)
detect_migration_source(fs) ==
    IF \E i \in Present(fs, Root) : fs[Root][i].kind # "current"
    THEN "bash-tk"
    ELSE "bash-tk"

(* A dispatch that takes every unknown source name for "auto". *)
migration_type_guessing(fs, source) ==
    IF source \in {"bash-tk", "beads"} THEN source ELSE detect_migration_source(fs)

migration_type(fs, source) ==
    IF source = "auto" THEN detect_migration_source(fs) ELSE source

(* A document of the root without front matter holds its title, the text   *)
(* of its "Status:" line (lower-cased; "open" when there is no such line), *)
(* its description and its notes; the id is the file stem, the tags are    *)
(* the manager's.                                                          *)
parse_bash_tk_ticket(doc, stem, at, project, category) ==
    [id |-> stem, title |-> doc.title, status |-> doc.status, deps |-> <<>>,
     created |-> at, description |-> doc.description, project |-> project,
     category |-> category, notes |-> doc.notes]

(* The loop of migrate_from_bash_tk over the root entries in listing       *)
(* order: documents that start with the marker are skipped; a failing save *)
(* ends the call with what was migrated so far.                            *)
RECURSIVE migrate_from_bash_tk(_, _, _, _, _)
migrate_from_bash_tk(fs, order, at, project, category) ==
    IF order = <<>> THEN [fs |-> fs, out |-> "ok"]
    ELSE LET stem == Head(order)
             doc == fs[Root][stem]
             ticket == parse_bash_tk_ticket(doc, stem, at, project, category)
         IN  IF ~IsFile(doc) \/ doc.kind = "current"
             THEN migrate_from_bash_tk(fs, Tail(order), at, project, category)
             ELSE IF ~CanSave(ticket) THEN [fs |-> fs, out |-> "IOError"]
                  ELSE migrate_from_bash_tk(
                           remove_file(save_ticket(fs, ticket), Path(Root, stem)),
                           Tail(order), at, project, category)

(* The result records the migration type the call settled on, the name its *)
(* closing message and its error message print.                            *)
migrate_tickets(source, project, category) ==
    /\ Idle
    /\ calls' = calls + 1
    /\ got' = NoGot
    /\ UNCHANGED <<proc, killed, web, walk, resolved>>
    /\ dirs' = ensure_status_directories(dirs)
    /\ listed' = NoList
    /\ UNCHANGED <<pc, cur>>
    /\ IF migration_type(files, source) = "bash-tk"
       THEN \E order \in Perms(Present(files, Root)), at \in now..MaxTime :
              LET m == migrate_from_bash_tk(files, order, at, project, category)
              IN  /\ files' = m.fs
                  /\ now' = at
                  /\ res' = Result("migrate", <<migration_type(files, source)>>,
                                   source, m.out)
       ELSE /\ res' = Result("migrate", <<migration_type(files, source)>>, source,
                             "MigrationUnsupported")
            /\ UNCHANGED <<files, now>>

----------------------------------------------------------------------------
(* PUT /api/tickets/<id>, statement by statement, for concurrent requests  *)

(* The request reaches the handler. *)
update_ticket_request(k, id, update) ==
    /\ web.req[k].pc = "none"
    /\ web' = [web EXCEPT !.req[k] = [NoRequest EXCEPT !.pc = "waiting", !.id = id,
                                                        !.update = update]]
    /\ UNCHANGED <<files, dirs, now, pc, cur, res, listed, calls, got, proc, killed,
                   walk, resolved>>

(* let manager = manager.write().await *)
update_ticket_lock(k) ==
    /\ web.req[k].pc = "waiting"
    /\ web.lock = 0
    /\ web' = [web EXCEPT !.lock = k, !.req[k].pc = "locked"]
    /\ UNCHANGED <<files, dirs, now, pc, cur, res, listed, calls, got, proc, killed,
                   walk, resolved>>

(* "Load the ticket" and "Apply updates"; 404 when the load fails, which   *)
(* drops the lock guard.                                                   *)
update_ticket_load(k) ==
    /\ web.req[k].pc = "locked"
    /\ \E r \in load_ticket(files, web.req[k].id) :
         web' = IF ~r.ok
                THEN [web EXCEPT !.lock = IF @ = k THEN 0 ELSE @,
                                 !.req[k].pc = "done",
                                 !.req[k].out = "NOT_FOUND"]
                ELSE [web EXCEPT !.req[k].pc = "loaded",
                                 !.req[k].ticket = Apply(r.t, web.req[k].update)]
    /\ UNCHANGED <<files, dirs, now, pc, cur, res, listed, calls, got, proc, killed,
                   walk, resolved>>

(* "Save the ticket" and the response; the lock guard is dropped on return. *)
update_ticket_save(k) ==
    /\ web.req[k].pc = "loaded"
    /\ dirs' = ensure_status_directories(dirs)
    /\ files' = IF CanSave(web.req[k].ticket) THEN save_ticket(files, web.req[k].ticket)
                ELSE files
    /\ web' = [web EXCEPT !.lock = IF @ = k THEN 0 ELSE @,
                          !.req[k].pc = "done",
                          !.req[k].out = IF CanSave(web.req[k].ticket) THEN "OK"
                                         ELSE "INTERNAL_SERVER_ERROR"]
    /\ UNCHANGED <<now, pc, cur, res, listed, calls, got, proc, killed, walk, resolved>>

----------------------------------------------------------------------------
(* add_dependency run by a second process, its load and its save apart *)

add_dependency_load(id, dep_id) ==
    /\ proc.op = "none"
    /\ calls < MaxCalls
    /\ calls' = calls + 1
    /\ \E r \in load_ticket(files, id) :
         proc' = IF ~r.ok
                 THEN [op |-> "returned", arg |-> id, ticket |-> NoTicket, out |-> r.err,
                       at |-> calls']
                 ELSE IF Contains(r.t.deps, dep_id)
                      THEN [op |-> "returned", arg |-> id, ticket |-> r.t,
                            out |-> "exists", at |-> calls']
                      ELSE [op |-> "loaded", arg |-> id,
                            ticket |-> [r.t EXCEPT !.deps = Append(r.t.deps, dep_id)],
                            out |-> "", at |-> calls']
    /\ UNCHANGED <<files, dirs, now, pc, cur, res, listed, got, killed, web, walk, resolved>>

(* A save that reads the document again and adds to what it finds. *)
add_dependency_save_merging ==
    /\ proc.op = "loaded"
    /\ LET d == get_status_dir(proc.ticket.status)
           last == proc.ticket.deps[Len(proc.ticket.deps)]
           base == IF CanSave(proc.ticket) /\ IsFile(files[d][proc.ticket.id])
                   THEN files[d][proc.ticket.id].deps
                   ELSE SubSeq(proc.ticket.deps, 1, Len(proc.ticket.deps) - 1)
       IN  files' = IF CanSave(proc.ticket)
                    THEN save_ticket(files, [proc.ticket EXCEPT !.deps = Append(base, last)])
                    ELSE files
    /\ dirs' = ensure_status_directories(dirs)
    /\ proc' = [proc EXCEPT !.op = "returned",
                            !.out = IF CanSave(proc.ticket) THEN "ok" ELSE "IOError"]
    /\ UNCHANGED <<now, pc, cur, res, listed, calls, got, killed, web, walk, resolved>>

add_dependency_save ==
    /\ proc.op = "loaded"
    /\ files' = IF CanSave(proc.ticket) THEN save_ticket(files, proc.ticket) ELSE files
    /\ dirs' = ensure_status_directories(dirs)
    /\ proc' = [proc EXCEPT !.op = "returned",
                            !.out = IF CanSave(proc.ticket) THEN "ok" ELSE "IOError"]
    /\ UNCHANGED <<now, pc, cur, res, listed, calls, got, killed, web, walk, resolved>>

----------------------------------------------------------------------------
(* move_ticket_to_status, one step per file write and per file removal *)

move_ticket_to_status(ticket_id, new_status) ==
    /\ Idle
    /\ calls' = calls + 1
    /\ got' = NoGot
    /\ UNCHANGED <<proc, killed, web, walk, resolved>>
    /\ \E r \in load_ticket(files, ticket_id) :
         IF ~r.ok THEN Fail("move", ticket_id, new_status, r.err)
         ELSE IF r.t.status = new_status
              THEN Fail("move", ticket_id, new_status, "same")
              ELSE IF new_status = "closed"
                   THEN \E l \in ListResults(files) :
                          /\ cur' = [NoCur EXCEPT !.arg = ticket_id, !.st = new_status,
                                                  !.ticket = r.t,
                                                  !.all = TicketsOf(l.out), !.idx = 1]
                          /\ pc' = "closure"
                          /\ dirs' = ensure_status_directories(dirs)
                          /\ res' = Result("move", ticket_id, new_status, "running")
                          /\ listed' = NoList
                          /\ UNCHANGED <<files, now>>
                   ELSE /\ cur' = [NoCur EXCEPT !.arg = ticket_id, !.st = new_status,
                                                !.ticket = r.t]
                        /\ pc' = "save"
                        /\ res' = Result("move", ticket_id, new_status, "running")
                        /\ listed' = NoList
                        /\ UNCHANGED <<files, dirs, now>>

(* deps.retain(|dep| dep != id) *)
RECURSIVE Retain(_, _)
Retain(s, x) ==
    IF s = <<>> THEN <<>>
    ELSE IF Head(s) = x THEN Retain(Tail(s), x)
         ELSE <<Head(s)>> \o Retain(Tail(s), x)

(* One iteration of the loop of handle_ticket_closure up to the save. *)
handle_ticket_closure ==
    /\ pc = "closure"
    /\ UNCHANGED <<calls, got, proc, killed, web, walk, resolved>>
    /\ IF cur.idx > Len(cur.all)
       THEN /\ pc' = "save"
            /\ UNCHANGED <<files, dirs, now, cur, res, listed>>
       ELSE LET ticket == cur.all[cur.idx]
            IN  IF Contains(ticket.deps, cur.ticket.id) /\ ticket.status = "blocked"
                THEN LET updated_ticket ==
                           [ticket EXCEPT !.deps = Retain(ticket.deps, cur.ticket.id),
                                          !.status = "ready"]
                     IN  /\ files' = save_ticket(files, updated_ticket)
                         /\ cur' = [cur EXCEPT !.upd = updated_ticket]
                         /\ pc' = "unblock"
                         /\ UNCHANGED <<dirs, now, res, listed>>
                ELSE /\ cur' = [cur EXCEPT !.idx = cur.idx + 1]
                     /\ UNCHANGED <<files, dirs, now, pc, res, listed>>

(* A removal after which the loop starts over from the first listed       *)
(* ticket.                                                                 *)
remove_blocked_restarting ==
    /\ pc = "unblock"
    /\ UNCHANGED <<calls, got, proc, killed, web, walk, resolved>>
    /\ \E blocked_path \in ticket_path_by_status(files, cur.upd.id, "blocked") :
         /\ files' = IF Exists(files, blocked_path) THEN remove_file(files, blocked_path)
                     ELSE files
         /\ cur' = [cur EXCEPT !.idx = 1, !.upd = NoTicket]
         /\ pc' = "closure"
         /\ UNCHANGED <<dirs, now, res, listed>>

(* The removal that ends the iteration: "Remove from blocked directory". *)
remove_blocked ==
    /\ pc = "unblock"
    /\ UNCHANGED <<calls, got, proc, killed, web, walk, resolved>>
    /\ \E blocked_path \in ticket_path_by_status(files, cur.upd.id, "blocked") :
         /\ files' = IF Exists(files, blocked_path) THEN remove_file(files, blocked_path)
                     ELSE files
         /\ cur' = [cur EXCEPT !.idx = cur.idx + 1, !.upd = NoTicket]
         /\ pc' = "closure"
         /\ UNCHANGED <<dirs, now, res, listed>>

(* A move that takes the old document away in the step that writes the new *)
(* one.                                                                    *)
move_save_rename ==
    /\ pc = "save"
    /\ UNCHANGED <<calls, got, proc, killed, web, walk, resolved>>
    /\ LET ticket == [cur.ticket EXCEPT !.status = cur.st]
       IN  /\ dirs' = ensure_status_directories(dirs)
           /\ IF CanSave(ticket)
              THEN /\ \E old_path \in ticket_path_by_status(files, cur.arg,
                                                            cur.ticket.status) :
                        files' = save_ticket(IF Exists(files, old_path)
                                             THEN remove_file(files, old_path)
                                             ELSE files, ticket)
                   /\ pc' = "remove"
                   /\ UNCHANGED <<now, cur, res, listed>>
              ELSE /\ pc' = "idle"
                   /\ cur' = NoCur
                   /\ res' = Result("move", cur.arg, cur.st, "IOError")
                   /\ listed' = NoList
                   /\ UNCHANGED <<files, now>>

(* "Update status and save to new location" *)
move_save ==
    /\ pc = "save"
    /\ UNCHANGED <<calls, got, proc, killed, web, walk, resolved>>
    /\ LET ticket == [cur.ticket EXCEPT !.status = cur.st]
       IN  /\ dirs' = ensure_status_directories(dirs)
           /\ IF CanSave(ticket)
              THEN /\ files' = save_ticket(files, ticket)
                   /\ pc' = "remove"
                   /\ UNCHANGED <<now, cur, res, listed>>
              ELSE /\ pc' = "idle"
                   /\ cur' = NoCur
                   /\ res' = Result("move", cur.arg, cur.st, "IOError")
                   /\ listed' = NoList
                   /\ UNCHANGED <<files, now>>

(* "Remove from old location if it exists" *)
move_remove ==
    /\ pc = "remove"
    /\ UNCHANGED <<calls, got, proc, killed, web, walk, resolved>>
    /\ \E old_path \in ticket_path_by_status(files, cur.arg, cur.ticket.status) :
         /\ files' = IF Exists(files, old_path)
                        /\ old_path # Path(get_status_dir(cur.st), cur.arg)
                     THEN remove_file(files, old_path)
                     ELSE files
         /\ pc' = "idle"
         /\ cur' = NoCur
         /\ res' = Result("move", cur.arg, cur.st, "ok")
         /\ listed' = NoList
         /\ UNCHANGED <<dirs, now>>

(* handle_ticket_closure as a whole, from the k-th listed ticket on: the    *)
(* stores it can leave behind.                                             *)
RECURSIVE ClosureOutcomes(_, _, _, _)
ClosureOutcomes(fs, all, k, closing_id) ==
    IF k > Len(all) THEN {fs}
    ELSE LET ticket == all[k]
             updated_ticket == [ticket EXCEPT !.deps = Retain(ticket.deps, closing_id),
                                              !.status = "ready"]
             saved == save_ticket(fs, updated_ticket)
         IN  IF Contains(ticket.deps, closing_id) /\ ticket.status = "blocked"
             THEN UNION {ClosureOutcomes(IF Exists(saved, blocked_path)
                                         THEN remove_file(saved, blocked_path)
                                         ELSE saved, all, k + 1, closing_id) :
                            blocked_path \in
                                ticket_path_by_status(saved, updated_ticket.id, "blocked")}
             ELSE ClosureOutcomes(fs, all, k + 1, closing_id)

(* move_ticket_to_status as a whole: the stores a call can leave behind. *)
MoveOutcomes(fs, ticket_id, new_status) ==
    UNION {IF ~r.ok \/ r.t.status = new_status THEN {fs}
           ELSE LET closed == IF new_status = "closed"
                              THEN UNION {ClosureOutcomes(fs, TicketsOf(l.out), 1, r.t.id) :
                                             l \in ListResults(fs)}
                              ELSE {fs}
                    ticket == [r.t EXCEPT !.status = new_status]
                IN  UNION {IF ~CanSave(ticket) THEN {f}
                           ELSE LET saved == save_ticket(f, ticket)
                                IN  {IF Exists(saved, old_path)
                                        /\ old_path # Path(get_status_dir(new_status),
                                                          ticket_id)
                                     THEN remove_file(saved, old_path)
                                     ELSE saved :
                                        old_path \in ticket_path_by_status(
                                                        saved, ticket_id, r.t.status)} :
                             f \in closed} :
              r \in load_ticket(fs, ticket_id)}

(* The process is killed inside move_ticket_to_status. *)
crash ==
    /\ pc # "idle"
    /\ killed' = IF pc = "remove"
                 THEN killed \cup {[id |-> cur.ticket.id, arg |-> cur.arg,
                                    old |-> cur.ticket.status, new |-> cur.st]}
                 ELSE killed
    /\ pc' = "idle"
    /\ cur' = NoCur
    /\ res' = Result("move", cur.arg, cur.st, "killed")
    /\ listed' = NoList
    /\ UNCHANGED <<files, dirs, now, calls, got, proc, web, walk, resolved>>

Next ==
    \/ \E title \in Titles : create_ticket(title, None, None)
    \/ \E id \in Ids, status \in StatusArgs : update_status(id, status)
    \/ \E id \in Ids, dep_id \in Ids : add_dependency(id, dep_id)
    \/ \E id \in Ids, dep_id \in Ids : remove_dependency(id, dep_id)
    \/ \E id \in Ids, status \in {None} \cup {Some(x) : x \in StatusArgs} :
         update_ticket(id, [NoUpdate EXCEPT !.status = status])
    \/ list_tickets
    \/ \E id \in Ids, status \in StatusArgs : move_ticket_to_status(id, status)
    \/ handle_ticket_closure
    \/ remove_blocked
    \/ move_save
    \/ move_remove

Spec == Init /\ [][Next]_vars

----------------------------------------------------------------------------
(* The editing commands (show, dep, undep, add-note, status changes) over  *)
(* a store whose root may also hold documents with notes and documents of  *)
(* the flat bash-tk format.                                                *)

Note0 == [timestamp |-> 0, content |-> PlainNote]

(* A bash-tk document: no metadata block, no block-separator marker. *)
LegacyDoc(id) ==
    [kind |-> "legacy", id |-> id, title |-> Plain, status |-> "open", deps |-> <<>>,
     created |-> 0, description |-> None, project |-> None, category |-> None,
     notes |-> <<>>]

(* An open document without dependencies, with or without a note; a       *)
(* blocked document that depends on the other ticket; a bash-tk document.  *)
EditDocs(id) ==
    {Encode([id |-> id, title |-> Plain, status |-> "open", deps |-> <<>>,
             created |-> 0, description |-> None, project |-> None,
             category |-> None, notes |-> n]) : n \in {<<>>, <<Note0>>}}
    \cup {Encode([id |-> id, title |-> Plain, status |-> "blocked", deps |-> <<j>>,
                  created |-> 0, description |-> None, project |-> None,
                  category |-> None, notes |-> <<>>]) : j \in Ids \ {id}}
    \cup {LegacyDoc(id)}

InitEdit ==
    /\ \E flat \in [Ids -> UNION {EditDocs(i) : i \in Ids} \cup {NoFile}] :
         /\ \A i \in Ids : flat[i] \in EditDocs(i) \cup {NoFile}
         /\ files = [d \in DirNames |->
                       IF d = Root THEN flat ELSE [i \in Ids |-> NoFile]]
    /\ dirs = {}
    /\ now = 1
    /\ pc = "idle"
    /\ cur = NoCur
    /\ res = Result("none", <<>>, "", "")
    /\ listed = NoList
    /\ calls = 0
    /\ got = NoGot
    /\ proc = NoProc
    /\ killed = {}
    /\ web = NoWeb
    /\ walk = NoWalk
    /\ resolved = NoResolved

EditStatuses == {"open", "closed"}

NextEdit ==
    \/ create_ticket(Plain, None, None)
    \/ \E id \in Ids : show_ticket(id)
    \/ \E id \in Ids, dep_id \in Ids : add_dependency(id, dep_id)
    \/ \E id \in Ids, dep_id \in Ids : remove_dependency(id, dep_id)
    \/ \E id \in Ids, note_content \in NoteTexts : add_note(id, note_content)
    \/ \E id \in Ids, status \in EditStatuses : update_status(id, status)
    \/ \E id \in Ids : move_ticket_to_status(id, "closed")
    \/ handle_ticket_closure
    \/ remove_blocked
    \/ move_save
    \/ move_remove

SpecEdit == InitEdit /\ [][NextEdit]_vars

----------------------------------------------------------------------------
(* Status moves that can be killed at any point. *)

NextCrash ==
    \/ \E id \in Ids, dep_id \in Ids : add_dependency(id, dep_id)
    \/ \E id \in Ids, status \in EditStatuses : move_ticket_to_status(id, status)
    \/ handle_ticket_closure
    \/ remove_blocked
    \/ move_save
    \/ move_remove
    \/ crash

SpecCrash == Init /\ [][NextCrash]_vars

----------------------------------------------------------------------------
(* Two processes on one store: the second runs add_dependency with its     *)
(* load and its save as separate steps.                                    *)

NextRace ==
    \/ \E id \in Ids, dep_id \in Ids : add_dependency(id, dep_id)
    \/ \E id \in Ids, note_content \in NoteTexts : add_note(id, note_content)
    \/ \E id \in Ids : move_ticket_to_status(id, "closed")
    \/ handle_ticket_closure
    \/ remove_blocked
    \/ move_save
    \/ move_remove
    \/ \E id \in Ids, dep_id \in Ids : add_dependency_load(id, dep_id)
    \/ add_dependency_save

SpecRace == Init /\ [][NextRace]_vars

----------------------------------------------------------------------------
(* The HTTP handler serving two PUT requests at once.                      *)

WebUpdates ==
    {[NoUpdate EXCEPT !.title = Some(Retitled)],
     [NoUpdate EXCEPT !.description = Some(PlainDesc)],
     [NoUpdate EXCEPT !.status = Some("closed")]}

NextWeb ==
    \/ \E k \in Requests, id \in Ids, update \in WebUpdates :
         update_ticket_request(k, id, update)
    \/ \E k \in Requests : update_ticket_lock(k)
    \/ \E k \in Requests : update_ticket_load(k)
    \/ \E k \in Requests : update_ticket_save(k)

SpecWeb == Init /\ [][NextWeb]_vars

----------------------------------------------------------------------------
(* The codec: a store root holding documents written by save_ticket, read  *)
(* back through load_ticket.                                               *)

CodecTickets(id) ==
    {[id |-> id, title |-> t, status |-> "open", deps |-> <<>>, created |-> 0,
      description |-> d, project |-> p, category |-> c, notes |-> n] :
        t \in Titles,
        d \in {None, Some(PlainDesc), Some(SepDesc), Some(OnlySep)},
        p \in {None, Some(<<"p">>)},
        c \in {None, Some(<<"q">>)},
        n \in {<<>>, <<Note0>>, <<[timestamp |-> 0, content |-> SepNote], Note0>>}}

InitCodec ==
    /\ \E ta \in CodecTickets(IdA) \cup {NoTicket},
          tb \in CodecTickets(IdAB) \cup {NoTicket} :
         files = [d \in DirNames |->
                    IF d = Root
                    THEN [i \in Ids |->
                            LET t == IF i = IdA THEN ta ELSE tb
                            IN  IF t = NoTicket THEN NoFile ELSE Encode(t)]
                    ELSE [i \in Ids |-> NoFile]]
    /\ dirs = {}
    /\ now = 1
    /\ pc = "idle"
    /\ cur = NoCur
    /\ res = Result("none", <<>>, "", "")
    /\ listed = NoList
    /\ calls = 0
    /\ got = NoGot
    /\ proc = NoProc
    /\ killed = {}
    /\ web = NoWeb
    /\ walk = NoWalk
    /\ resolved = NoResolved

NextCodec ==
    \/ \E id \in Ids : show_ticket(id)

SpecCodec == InitCodec /\ [][NextCodec]_vars

----------------------------------------------------------------------------
(* Searching a store whose tickets differ in the case of their texts.      *)

SearchDocs(id) ==
    {Encode([id |-> id, title |-> t, status |-> "open", deps |-> <<>>,
             created |-> c, description |-> d, project |-> None, category |-> None,
             notes |-> <<>>]) :
        t \in {Plain, <<"x", "t">>},
        d \in {None, Some(<<"D">>)},
        c \in {Len(id) - 1}}

InitSearch ==
    /\ \E flat \in [Ids -> UNION {SearchDocs(i) : i \in Ids} \cup {NoFile}] :
         /\ \A i \in Ids : flat[i] \in SearchDocs(i) \cup {NoFile}
         /\ files = [d \in DirNames |->
                       IF d = Root THEN flat ELSE [i \in Ids |-> NoFile]]
    /\ dirs = {}
    /\ now = 1
    /\ pc = "idle"
    /\ cur = NoCur
    /\ res = Result("none", <<>>, "", "")
    /\ listed = NoList
    /\ calls = 0
    /\ got = NoGot
    /\ proc = NoProc
    /\ killed = {}
    /\ web = NoWeb
    /\ walk = NoWalk
    /\ resolved = NoResolved

Queries == {<<>>, <<"t">>, <<"T">>, <<"A">>, <<"b">>, <<"d">>, <<"x", "T">>, <<"z">>}

NextSearch ==
    \/ \E id \in Ids, status \in EditStatuses : update_status(id, status)
    \/ \E query \in Queries : search_tickets(query)

SpecSearch == InitSearch /\ [][NextSearch]_vars

----------------------------------------------------------------------------
(* Migration of a store root that holds bash-tk documents next to          *)
(* documents of the current format.                                        *)

(* The statuses a bash-tk document's "Status:" line gives: none or open,   *)
(* closed, a line with nothing after the colon, a status outside the       *)
(* seven.                                                                  *)
LegacyStatuses == {"open", "closed", "", "done"}

LegacyDocs(id) ==
    {[LegacyDoc(id) EXCEPT !.status = s, !.description = d] :
        s \in LegacyStatuses, d \in {None, Some(PlainDesc)}}

MigrateDocs(id) ==
    LegacyDocs(id)
    \cup {Encode([id |-> id, title |-> Plain, status |-> "open", deps |-> <<>>,
                  created |-> 0, description |-> None, project |-> None,
                  category |-> None, notes |-> <<>>])}

InitMigrate ==
    /\ \E flat \in [Ids -> UNION {MigrateDocs(i) : i \in Ids} \cup {NoFile}] :
         /\ \A i \in Ids : flat[i] \in MigrateDocs(i) \cup {NoFile}
         /\ files = [d \in DirNames |->
                       IF d = Root THEN flat ELSE [i \in Ids |-> NoFile]]
    /\ dirs = {}
    /\ now = 1
    /\ pc = "idle"
    /\ cur = NoCur
    /\ res = Result("none", <<>>, "", "")
    /\ listed = NoList
    /\ calls = 0
    /\ got = NoGot
    /\ proc = NoProc
    /\ killed = {}
    /\ web = NoWeb
    /\ walk = NoWalk
    /\ resolved = NoResolved

(* "auto", the two names the dispatch knows, and a name it does not. *)
Sources == {"auto", "bash-tk", "beads", "jira"}

NextMigrate ==
    \/ \E source \in Sources, project \in {None, Some(<<"p">>)} :
         migrate_tickets(source, project, None)
    \/ \E id \in Ids : update_status(id, "closed")

SpecMigrate == InitMigrate /\ [][NextMigrate]_vars

----------------------------------------------------------------------------
(* Stores configured with project and category tags, on a root whose       *)
(* documents carry tags or none.                                           *)

(* What --project and --category can give a manager. *)
Configs ==
    {[project |-> None, category |-> None],
     [project |-> Some(<<"q">>), category |-> None],
     [project |-> Some(<<"q">>), category |-> Some(<<"p">>)]}

TagDocs(id) ==
    {Encode([id |-> id, title |-> Plain, status |-> "open", deps |-> <<>>,
             created |-> 0, description |-> None, project |-> p, category |-> None,
             notes |-> <<>>]) : p \in {None, Some(<<"p">>)}}
    \cup {Encode([id |-> id, title |-> Plain, status |-> "blocked", deps |-> <<j>>,
                  created |-> 0, description |-> None, project |-> Some(<<"p">>),
                  category |-> Some(<<"p">>), notes |-> <<>>]) : j \in Ids \ {id}}

InitTags ==
    /\ \E flat \in [Ids -> UNION {TagDocs(i) : i \in Ids} \cup {NoFile}] :
         /\ \A i \in Ids : flat[i] \in TagDocs(i) \cup {NoFile}
         /\ files = [d \in DirNames |->
                       IF d = Root THEN flat ELSE [i \in Ids |-> NoFile]]
    /\ dirs = {}
    /\ now = 1
    /\ pc = "idle"
    /\ cur = NoCur
    /\ res = Result("none", <<>>, "", "")
    /\ listed = NoList
    /\ calls = 0
    /\ got = NoGot
    /\ proc = NoProc
    /\ killed = {}
    /\ web = NoWeb
    /\ walk = NoWalk
    /\ resolved = NoResolved

NextTags ==
    \/ \E c \in Configs : create_ticket(Plain, c.project, c.category)
    \/ \E id \in Ids, status \in EditStatuses : update_status(id, status)
    \/ \E id \in Ids, dep_id \in Ids : add_dependency(id, dep_id)
    \/ \E id \in Ids, dep_id \in Ids : remove_dependency(id, dep_id)
    \/ \E id \in Ids : add_note(id, PlainNote)
    \/ \E id \in Ids : move_ticket_to_status(id, "closed")
    \/ handle_ticket_closure
    \/ remove_blocked
    \/ move_save
    \/ move_remove

SpecTags == InitTags /\ [][NextTags]_vars

----------------------------------------------------------------------------
(* Resolving the store root from a working directory up to MaxDepth        *)
(* levels below the filesystem root.                                       *)

MaxDepth == 3

(* What a directory on the way can hold: nothing of interest, one of the   *)
(* conventional names, or two of them.                                     *)
Holdings == {{}, {".tickets"}, {"tickets"}, {"ticket"}, {".ticket", "tickets"}}

Trees == UNION {[1..n -> Holdings] : n \in 1..MaxDepth}

InitFind ==
    /\ files = [d \in DirNames |-> [i \in Ids |-> NoFile]]
    /\ dirs = {}
    /\ now = 1
    /\ pc = "idle"
    /\ cur = NoCur
    /\ res = Result("none", <<>>, "", "")
    /\ listed = NoList
    /\ calls = 0
    /\ got = NoGot
    /\ proc = NoProc
    /\ killed = {}
    /\ web = NoWeb
    /\ \E tree \in Trees : walk = [NoWalk EXCEPT !.tree = tree]
    /\ resolved = NoResolved

NextFind ==
    \/ \E repo_root \in {None} \cup {Some(k) : k \in 0..MaxDepth} :
         find_tickets_dir(repo_root)

SpecFind == InitFind /\ [][NextFind]_vars

----------------------------------------------------------------------------
(* Path resolution over stores that hold documents in the root and under   *)
(* the status directories open and blocked, each under its own file name.  *)

ResolveDirs == {Root, "open", "blocked"}

ResolveDoc(d, id) ==
    Encode([id |-> id, title |-> Plain, status |-> IF d = Root THEN "open" ELSE d,
            deps |-> <<>>, created |-> 0, description |-> None, project |-> None,
            category |-> None, notes |-> <<>>])

InitResolve ==
    /\ \E held \in SUBSET (ResolveDirs \X Ids) :
         files = [d \in DirNames |-> [i \in Ids |->
                    IF <<d, i>> \in held THEN ResolveDoc(d, i) ELSE NoFile]]
    /\ dirs = Statuses
    /\ now = 1
    /\ pc = "idle"
    /\ cur = NoCur
    /\ res = Result("none", <<>>, "", "")
    /\ listed = NoList
    /\ calls = 0
    /\ got = NoGot
    /\ proc = NoProc
    /\ killed = {}
    /\ web = NoWeb
    /\ walk = NoWalk
    /\ resolved = NoResolved

(* No hint, or the status a caller read from a ticket. *)
Hints == {None, Some("open"), Some("blocked"), Some("closed")}

NextResolve ==
    \E id \in Ids, status_hint \in Hints : resolve(id, status_hint)

SpecResolve == InitResolve /\ [][NextResolve]_vars

----------------------------------------------------------------------------
(* The layout of store roots in which some of the status directories, and  *)
(* a directory of another name, may or may not exist yet.                  *)

OtherDir == "done"

InitLayout ==
    /\ dirs \in SUBSET (Statuses \cup {OtherDir})
    /\ \E held \in SUBSET ({Root} \cup ({"open", "closed"} \cap dirs)) :
         files = [d \in DirNames |-> [i \in Ids |->
                    IF d \in held /\ i = IdA THEN ResolveDoc(d, i) ELSE NoFile]]
    /\ now = 1
    /\ pc = "idle"
    /\ cur = NoCur
    /\ res = Result("none", <<>>, "", "")
    /\ listed = NoList
    /\ calls = 0
    /\ got = NoGot
    /\ proc = NoProc
    /\ killed = {}
    /\ web = NoWeb
    /\ walk = NoWalk
    /\ resolved = NoResolved

NextLayout ==
    \/ ensure_status_directories_call
    \/ list_tickets

SpecLayout == InitLayout /\ [][NextLayout]_vars

----------------------------------------------------------------------------
(* Closing tickets of stores whose dependency graphs have chains, cycles   *)
(* and self-dependencies (add_dependency accepts any dep_id, the ticket's  *)
(* own id included).                                                       *)

DepLists == {<<>>, <<IdA>>, <<IdAB>>, <<IdA, IdAB>>, <<IdAB, IdA>>}

CascadeDocs(id) ==
    {Encode([id |-> id, title |-> Plain, status |-> s, deps |-> d, created |-> 0,
             description |-> None, project |-> None, category |-> None,
             notes |-> <<>>]) :
        s \in InitStatuses, d \in DepLists}

InitCascade ==
    /\ \E flat \in [Ids -> UNION {CascadeDocs(i) : i \in Ids} \cup {NoFile}] :
         /\ \A i \in Ids : flat[i] \in CascadeDocs(i) \cup {NoFile}
         /\ files = [d \in DirNames |->
                       IF d = Root THEN flat ELSE [i \in Ids |-> NoFile]]
    /\ dirs = {}
    /\ now = 1
    /\ pc = "idle"
    /\ cur = NoCur
    /\ res = Result("none", <<>>, "", "")
    /\ listed = NoList
    /\ calls = 0
    /\ got = NoGot
    /\ proc = NoProc
    /\ killed = {}
    /\ web = NoWeb
    /\ walk = NoWalk
    /\ resolved = NoResolved

NextCascade ==
    \/ \E id \in Ids, status \in InitStatuses : update_status(id, status)
    \/ \E id \in Ids : move_ticket_to_status(id, "closed")
    \/ handle_ticket_closure
    \/ remove_blocked
    \/ move_save
    \/ move_remove

SpecCascade == InitCascade /\ [][NextCascade]_vars

(* A call of move_ticket_to_status runs in one thread that is not stopped: *)
(* each of its steps is taken once it can be.                              *)
SpecCascadeFair ==
    /\ SpecCascade
    /\ WF_vars(handle_ticket_closure)
    /\ WF_vars(remove_blocked)
    /\ WF_vars(move_save)
    /\ WF_vars(move_remove)

----------------------------------------------------------------------------
(* Properties *)

(* id's only document in the whole store is <d>/<id>.md, recording d. *)
ExistsOnlyUnder(id, d) ==
    /\ IsFile(files[d][id])
    /\ files[d][id].status = d
    /\ files[d][id].id = id
    /\ \A e \in DirNames \ {d} : ~IsFile(files[e][id])

(* This step is the return of a store call. *)
Returns == pc' = "idle" /\ (calls' = calls + 1 \/ pc # "idle")

TransitionOps == {"update_status", "move"}

(* This step is the return of a status change of id to s. *)
TransitionReturns(id, s) ==
    Returns /\ res'.op \in TransitionOps /\ res'.arg = id /\ res'.st = s

(* C1: between calls, every id that has a document in a status directory   *)
(* has exactly one such document, and it lies in the directory named by    *)
(* the status it records.                                                  *)
C1_OneBackingFile ==
    pc = "idle" =>
        \A id \in Ids, d \in Statuses :
            IsFile(files[d][id]) =>
                /\ files[d][id].status = d
                /\ \A e \in Statuses \ {d} : ~IsFile(files[e][id])

(* C2: no step of any operation, the single writes and removals of a move  *)
(* and of the closure cascade included, takes away the last document of a  *)
(* ticket that has one in a status directory.                              *)
C2_NeverLost ==
    [][\A id \in Ids :
          (\E d \in Statuses : IsFile(files[d][id]))
              => (\E d \in DirNames : IsFile(files'[d][id]))]_vars

(* C3: every document in the store records one of the seven statuses.      *)
C3_StatusInSet ==
    \A d \in DirNames, id \in Ids :
        IsFile(files[d][id]) => files[d][id].status \in Statuses

LoadsWithStatus(id, s) ==
    \A r \in load_ticket(files, id) : r.ok /\ r.t.id = id /\ r.t.status = s

(* C5: a status change to the status the ticket already has writes,        *)
(* moves and removes nothing.                                              *)
C5_SameStatusNoWrite ==
    [][\A id \in Ids, s \in Statuses :
          (pc = "idle" /\ LoadsWithStatus(id, s) /\ TransitionReturns(id, s))
              => files' = files]_vars

(* C6: in a store whose documents all record valid statuses, a status      *)
(* change of a loadable ticket to a status outside the seven fails with    *)
(* InvalidStatus and changes no document.                                  *)
C6_InvalidStatusRejected ==
    [][\A id \in Ids, s \in BadStatuses :
          (/\ C3_StatusInSet
           /\ TransitionReturns(id, s)
           /\ res'.out \notin {"NotFound", "FormatError"})
              => (res'.out = "InvalidStatus" /\ files' = files)]_vars

(* C7: once a status change of A to closed has returned and A's document   *)
(* is under closed, no document of another ticket under blocked still      *)
(* lists A in deps.                                                        *)
C7_CascadeUnblocks ==
    (/\ pc = "idle"
     /\ res.op \in TransitionOps
     /\ res.st = "closed"
     /\ res.out = "ok"
     /\ IsFile(files["closed"][res.arg]))
        => \A t \in Ids \ {res.arg} :
              IsFile(files["blocked"][t]) => ~Contains(files["blocked"][t].deps, res.arg)

(* C8: right after create returned id, open/<id>.md exists and decodes to  *)
(* that id with status open, and no other status directory holds a         *)
(* document of id.                                                         *)
C8_CreateUnderOpen ==
    res.op = "create" =>
        /\ IsFile(files["open"][res.arg])
        /\ Decodable(files["open"][res.arg])
        /\ Decode(files["open"][res.arg]).id = res.arg
        /\ Decode(files["open"][res.arg]).status = "open"
        /\ \A d \in Statuses \ {"open"} : ~IsFile(files[d][res.arg])

(* C9: the result of list holds the content of every decodable document    *)
(* stored under a status directory.                                        *)
C9_ListComplete ==
    res.op = "list" =>
        \A d \in Statuses, id \in Ids :
            (IsFile(files[d][id]) /\ Decodable(files[d][id]))
                => \E i \in 1..Len(listed.out) : listed.out[i].t = Decode(files[d][id])

DirIndex(d) == CHOOSE i \in 1..Len(StatusOrder) : StatusOrder[i] = d

(* C10: the result of list is the enumeration (status directories in the   *)
(* fixed order) rearranged so that created never increases, and entries    *)
(* with equal created keep their enumeration order.                        *)
C10_ListOrder ==
    res.op = "list" =>
        LET out == listed.out
            enum == listed.enum
        IN  /\ Len(out) = Len(enum)
            /\ \A i \in 1..Len(out) : enum[out[i].k] = out[i]
            /\ \A i, j \in 1..Len(out) :
                  i < j => /\ out[i].k # out[j].k
                           /\ out[i].t.created >= out[j].t.created
                           /\ (out[i].t.created = out[j].t.created => out[i].k < out[j].k)
            /\ \A i, j \in 1..Len(enum) :
                  i < j => DirIndex(enum[i].dir) <= DirIndex(enum[j].dir)

(* A list that had to move a newer ticket in front of an older one that    *)
(* the enumeration met first.                                              *)
C10_Witness ==
    /\ res.op = "list"
    /\ \E i, j \in 1..Len(listed.out) :
          /\ i < j
          /\ listed.out[i].k > listed.out[j].k
          /\ listed.out[i].t.created > listed.out[j].t.created

----------------------------------------------------------------------------
(* Properties of the editing commands *)

(* The documents the store holds under the file name <id>.md. *)
DocsOf(id) == {files[d][id] : d \in {e \in DirNames : IsFile(files[e][id])}}

(* The ids of which some document exists whose file name starts with p. *)
Matching(p) == {i \in Ids : starts_with(FileName(i), p) /\ DocsOf(i) # {}}

(* This step is the return of a call of op on id. *)
CallReturns(op, id) ==
    pc = "idle" /\ calls' = calls + 1 /\ res'.op = op /\ res'.arg = id

(* C11: after load(id), here through show: when the documents named id     *)
(* (in the root or in any status directory) exist and all decode, the call *)
(* succeeded and returned one of them decoded; when no document name       *)
(* starts with id, it failed with NotFound; it failed with FormatError     *)
(* only if some matching document does not decode.                         *)
C11_LoadWhereverItLives ==
    res.op = "show" =>
        /\ (DocsOf(res.arg) # {} /\ \A doc \in DocsOf(res.arg) : Decodable(doc))
               => /\ res.out = "ok"
                  /\ \E doc \in DocsOf(res.arg) : got.t = Decode(doc)
        /\ Matching(res.arg) = {} => res.out = "NotFound"
        /\ res.out = "FormatError"
               => \E i \in Matching(res.arg) : \E doc \in DocsOf(i) : ~Decodable(doc)

ProperPrefix(p, x) == Len(p) < Len(x) /\ starts_with(x, p)

(* C12: after load(p), here through show, for p a proper prefix of X, X's   *)
(* only document lying decodable under a status directory and no other id  *)
(* starting with p having a document: the call succeeded and returned      *)
(* ticket X.                                                               *)
C12_PrefixResolves ==
    res.op = "show" =>
        \A X \in Ids, d \in Statuses :
            (/\ ProperPrefix(res.arg, X)
             /\ ExistsOnlyUnder(X, d)
             /\ Decodable(files[d][X])
             /\ Matching(res.arg) = {X})
                => (res.out = "ok" /\ got.t = Decode(files[d][X]))

(* Every document but <d>/<id>.md is the same before and after the step. *)
OnlyChanges(d, id) ==
    \A e \in DirNames, i \in Ids : (e # d \/ i # id) => files'[e][i] = files[e][i]

(* C13: add_dependency(id, dep) on a ticket whose only document lies       *)
(* decodable under a status directory: when dep is not in its deps the     *)
(* call succeeds and that document's deps get dep appended, nothing else   *)
(* changing; when dep is already there no document changes. dep ranges     *)
(* over id itself, existing and non-existing ids alike.                    *)
C13_AddDependency ==
    [][\A id \in Ids, d \in Statuses :
          (/\ CallReturns("add_dependency", id)
           /\ ExistsOnlyUnder(id, d)
           /\ Decodable(files[d][id]))
              => IF Contains(files[d][id].deps, got'.dep)
                 THEN files' = files
                 ELSE /\ res'.out = "ok"
                      /\ IsFile(files'[d][id])
                      /\ files'[d][id].deps = Append(files[d][id].deps, got'.dep)
                      /\ OnlyChanges(d, id)]_vars

(* C14: remove_dependency(id, dep) on a ticket whose only document lies    *)
(* decodable under a status directory: when dep is in its deps the call    *)
(* succeeds and that document loses exactly the first occurrence of dep,   *)
(* nothing else changing; when dep is absent no document changes and the   *)
(* call reports the dependency as not found.                               *)
C14_RemoveDependency ==
    [][\A id \in Ids, d \in Statuses :
          (/\ CallReturns("remove_dependency", id)
           /\ ExistsOnlyUnder(id, d)
           /\ Decodable(files[d][id]))
              => IF Position(files[d][id].deps, got'.dep) = 0
                 THEN files' = files /\ res'.out = "absent"
                 ELSE /\ res'.out = "ok"
                      /\ IsFile(files'[d][id])
                      /\ files'[d][id].deps =
                            RemoveAt(files[d][id].deps,
                                     Position(files[d][id].deps, got'.dep))
                      /\ OnlyChanges(d, id)]_vars

(* C15: when add_dependency(id, dep) has just added dep (it was not in the *)
(* deps the call loaded) and remove_dependency(id, dep) follows at once,   *)
(* the document add_dependency wrote holds again the deps list the ticket  *)
(* had before the two calls.                                               *)
C15_AddThenRemove ==
    [][\A id \in Ids :
          (/\ res.op = "add_dependency"
           /\ res.arg = id
           /\ res.out = "ok"
           /\ CallReturns("remove_dependency", id)
           /\ got'.dep = got.dep)
              => LET d == get_status_dir(got.t.status)
                 IN  /\ IsFile(files'[d][got.t.id])
                     /\ files'[d][got.t.id].deps = got.t.deps]_vars

SepFree(notes) == \A i \in 1..Len(notes) : ~ContainsSep(notes[i].content)

(* C16: no step of a status change, of the cascade, of a dependency        *)
(* command or of add_note takes away, reorders or alters a note of a       *)
(* document that stays under its status directory (notes free of the       *)
(* block-separator marker): its notes before the step are the first notes  *)
(* of its notes after the step.                                            *)
C16_NotesAppendOnly ==
    [][\A d \in Statuses, id \in Ids :
          (/\ IsFile(files[d][id])
           /\ IsFile(files'[d][id])
           /\ SepFree(files[d][id].notes)
           /\ ~(calls' = calls + 1 /\ res'.op = "create"))
              => starts_with(files'[d][id].notes, files[d][id].notes)]_vars

Identity(t) == <<t.id, t.created, t.title>>

(* The (id, created, title) of every document in the store and of every    *)
(* ticket the running move has loaded.                                     *)
Held(fs, c) ==
    UNION {{Identity(fs[d][i]) : i \in Present(fs, d)} : d \in DirNames}
    \cup {Identity(c.ticket), Identity(c.upd)}
    \cup {Identity(c.all[k]) : k \in 1..Len(c.all)}

(* This step is the return of create. *)
CreateReturns == pc = "idle" /\ calls' = calls + 1 /\ res'.op = "create"

(* C17: no step of a status change, of the cascade, of a dependency        *)
(* command or of add_note brings up a ticket, in a document or in the      *)
(* running call, whose id, created and title are not those of a ticket     *)
(* held before the step, and every document such a step writes carries     *)
(* the id of its file name: the operations copy id, created and title,     *)
(* they never set them.                                                    *)
C17_IdentityFrame ==
    [][~CreateReturns =>
          /\ Held(files', cur') \subseteq Held(files, cur) \cup {Identity(NoTicket)}
          /\ \A d \in DirNames, i \in Ids :
                (IsFile(files'[d][i]) /\ files'[d][i] # files[d][i])
                    => files'[d][i].id = i]_vars

(* A move to closed has returned whose cascade moved a dependent to ready, *)
(* and the closed ticket has its document under closed.                    *)
C17_Witness ==
    /\ pc = "idle"
    /\ res.op = "move"
    /\ res.out = "ok"
    /\ \E i \in Ids : IsFile(files["ready"][i])
    /\ \E i \in Ids : IsFile(files["closed"][i])

(* C18: create never returns an id that already names a document under a   *)
(* status directory.                                                       *)
C18_IdsUnique ==
    [][CreateReturns => \A d \in Statuses : ~IsFile(files[d][res'.arg])]_vars

----------------------------------------------------------------------------
(* Properties of killed moves *)

(* This step kills a move between its write and its removal. *)
KilledInWindow == pc = "remove" /\ pc' = "idle" /\ res'.out = "killed"

(* The document the running move writes, and the documents its removal    *)
(* can resolve to.                                                         *)
NewPath == Path(get_status_dir(cur.st), cur.ticket.id)

OldPaths(fs) == ticket_path_by_status(fs, cur.arg, cur.ticket.status)

(* C19, as the code has it: the write of a move puts the new document      *)
(* under the new status directory, recording the new status, and leaves    *)
(* the old document (the one the removal resolves to, when it exists)      *)
(* as it is; a kill between the write and the removal changes no document, *)
(* so both are left, the old one another file than the new one and still   *)
(* recording the old status.                                               *)
C19_KillLeavesBoth ==
    [][/\ (pc = "save" /\ pc' = "remove")
             => /\ Exists(files', NewPath)
                /\ files'[NewPath.dir][NewPath.name].status = cur.st
                /\ \A old_path \in OldPaths(files) :
                      Exists(files, old_path)
                          => /\ old_path # NewPath
                             /\ files'[old_path.dir][old_path.name]
                                   = files[old_path.dir][old_path.name]
       /\ KilledInWindow
             => /\ files' = files
                /\ Exists(files', NewPath)
                /\ \A old_path \in OldPaths(files') :
                      Exists(files', old_path)
                          => /\ old_path # NewPath
                             /\ files'[old_path.dir][old_path.name].status
                                   = cur.ticket.status]_vars

(* A move was just killed in the window, and the ticket has one document   *)
(* under the old and one under the new status directory.                   *)
C19_Witness ==
    /\ res.out = "killed"
    /\ \E k \in killed :
          /\ k.arg = res.arg
          /\ k.new = res.st
          /\ k.old \in Statuses
          /\ IsFile(files[k.old][k.id])
          /\ files[k.old][k.id].status = k.old
          /\ IsFile(files[k.new][k.id])
          /\ files[k.new][k.id].status = k.new

(* C19, as stated: once a move of a ticket was killed in the window, the   *)
(* store keeps at least two documents of that ticket whatever its          *)
(* operations do afterwards.                                               *)
C19_DuplicatePersists ==
    \A k \in killed : Cardinality({d \in DirNames : IsFile(files[d][k.id])}) >= 2

----------------------------------------------------------------------------
(* Properties of two processes on one store *)

(* C20: the save of a process that loaded a ticket earlier puts exactly    *)
(* what that process loaded, with its own dependency added, into the       *)
(* ticket's document, whatever another process saved there in between,     *)
(* changes no other document, and reports no error.                        *)
C20_LastWriterWins ==
    [][(proc.op = "loaded" /\ proc'.op = "returned")
          => /\ proc'.out = "ok"
             /\ files'[get_status_dir(proc.ticket.status)][proc.ticket.id]
                   = Encode(proc.ticket)
             /\ OnlyChanges(get_status_dir(proc.ticket.status), proc.ticket.id)]_vars

(* The second process loaded first; then the first process added another   *)
(* dependency to the same ticket and returned ok; then the second process  *)
(* saved and returned ok, and the document lacks the first one's           *)
(* dependency.                                                             *)
C20_Witness ==
    /\ calls = 2
    /\ proc.at = 1
    /\ proc.op = "returned"
    /\ proc.out = "ok"
    /\ res.op = "add_dependency"
    /\ res.out = "ok"
    /\ got.t.id = proc.ticket.id
    /\ got.t.status = proc.ticket.status
    /\ ~Contains(proc.ticket.deps, got.dep)
    /\ files[get_status_dir(proc.ticket.status)][proc.ticket.id] = Encode(proc.ticket)

----------------------------------------------------------------------------
(* Properties of the HTTP handler *)

(* The requests that hold the manager between their lock and their return. *)
InHandler == {k \in Requests : web.req[k].pc \in {"locked", "loaded"}}

(* C21: at most one PUT is between its lock and its return at any time,    *)
(* and once two PUTs on the same ticket have both answered OK, one having  *)
(* set only the title and the other only the description, the document     *)
(* they wrote carries the new title and the new description.               *)
C21_BothChangesKept ==
    /\ Cardinality(InHandler) <= 1
    /\ \A j, k \in Requests :
          (/\ j # k
           /\ web.req[j].pc = "done" /\ web.req[j].out = "OK"
           /\ web.req[k].pc = "done" /\ web.req[k].out = "OK"
           /\ web.req[j].ticket.id = web.req[k].ticket.id
           /\ web.req[j].update = [NoUpdate EXCEPT !.title = Some(Retitled)]
           /\ web.req[k].update = [NoUpdate EXCEPT !.description = Some(PlainDesc)])
              => LET doc == files[get_status_dir(web.req[k].ticket.status)]
                                 [web.req[k].ticket.id]
                 IN  /\ IsFile(doc)
                     /\ doc.title = Retitled
                     /\ doc.description = Some(PlainDesc)

----------------------------------------------------------------------------
(* Properties of the codec *)

(* C22: when load (here through show) reads the document save_ticket wrote *)
(* for a ticket t, it succeeds and returns t, equal in every field, absent *)
(* optional fields absent; t ranges over tickets whose title, description  *)
(* or notes contain the block-separator marker too.                        *)
C22_RoundTrip ==
    res.op = "show" =>
        \A t \in CodecTickets(res.arg) :
            files[Root][res.arg] = Encode(t) => (res.out = "ok" /\ got.t = t)

----------------------------------------------------------------------------
(* Properties of search *)

(* q occurs in text when letter case is ignored. *)
OccursIgnoringCase(text, q) ==
    \E i \in 0..(Len(text) - Len(q)) :
        \A j \in 1..Len(q) : Lower(text[i + j]) = Lower(q[j])

Wanted(t, q) ==
    \/ OccursIgnoringCase(t.title, q)
    \/ (t.description # None /\ OccursIgnoringCase(t.description[1], q))
    \/ OccursIgnoringCase(t.id, q)

(* Where an entry of the list stands in it (entries differ in k). *)
PlaceIn(s, x) == CHOOSE i \in 1..Len(s) : s[i] = x

(* C23: search_tickets(q) changes no document, and what it returns are     *)
(* exactly the entries of the list it took whose title, description or id  *)
(* contains q ignoring letter case, each once, in the order of the list.   *)
C23_SearchFilters ==
    [][(pc = "idle" /\ calls' = calls + 1 /\ res'.op = "search")
          => LET q == res'.arg
                 all == listed'.enum
                 out == listed'.out
             IN  /\ files' = files
                 /\ res'.out = "ok"
                 /\ \A i \in 1..Len(out) :
                       \E k \in 1..Len(all) : all[k] = out[i] /\ Wanted(out[i].t, q)
                 /\ \A k \in 1..Len(all) :
                       Wanted(all[k].t, q) => \E i \in 1..Len(out) : out[i] = all[k]
                 /\ \A i, j \in 1..Len(out) :
                       i < j => PlaceIn(all, out[i]) < PlaceIn(all, out[j])]_vars

(* A search that kept one ticket for a match that needs case folding and   *)
(* dropped another, out of a list of two.                                  *)
C23_Witness ==
    /\ res.op = "search"
    /\ Len(listed.enum) >= 2
    /\ Len(listed.out) >= 1
    /\ Len(listed.out) < Len(listed.enum)
    /\ \E i \in 1..Len(listed.out) : ~search_filter_exact(listed.out[i].t, res.arg)

----------------------------------------------------------------------------
(* Properties of migration *)

(* This step is the return of migrate_tickets. *)
MigrateReturns == pc = "idle" /\ calls' = calls + 1 /\ res'.op = "migrate"

(* C24: when migrate_tickets (auto or bash-tk) succeeds, no bash-tk        *)
(* document is left in the root; every bash-tk document <root>/<i>.md has  *)
(* become the current-format document <s>/<i>.md with id i and status s,   *)
(* s its parsed status, and no other document named i appeared; the        *)
(* current-format documents of the root are as they were.                  *)
C24_LegacyImported ==
    [][(MigrateReturns /\ res'.out = "ok")
          => /\ \A i \in Ids : files'[Root][i] # NoFile => files'[Root][i].kind # "legacy"
             /\ \A i \in Ids :
                   (files[Root][i] # NoFile /\ files[Root][i].kind = "legacy")
                       => LET s == files[Root][i].status
                          IN  /\ s \in Statuses
                              /\ files'[s][i] # NoFile
                              /\ files'[s][i].kind = "current"
                              /\ files'[s][i].id = i
                              /\ files'[s][i].status = s
                              /\ \A d \in Statuses \ {s} : files'[d][i] = files[d][i]
             /\ \A i \in Ids :
                   (files[Root][i] # NoFile /\ files[Root][i].kind = "current")
                       => files'[Root][i] = files[Root][i]]_vars

C34_DetectFormat ==
    [][(MigrateReturns /\ res'.st = "auto")
          => (res'.arg = <<"bash-tk">>
                <=> \E i \in Ids : files[Root][i] # NoFile
                                      /\ files[Root][i].kind # "current")]_vars

----------------------------------------------------------------------------
(* Properties of the status machine *)

(* The statuses id's documents record. *)
StatusesOf(fs, id) == {fs[d][id].status : d \in {e \in DirNames : fs[e][id] # NoFile}}

(* C26: from every status s a ticket whose only document lies decodable    *)
(* under s is taken to every other status s2 by one status change, closed  *)
(* and archive not excepted: the call succeeds and the ticket's document   *)
(* is under s2 with status s2; and a step gives a ticket a status none of  *)
(* its documents recorded only when it is the write of a status change of  *)
(* that ticket, a create, a PUT, or the cascade writing ready for a ticket *)
(* it loaded as blocked.                                                   *)
C26_NoTerminalStatus ==
    [][/\ \A id \in Ids, s \in Statuses, s2 \in Statuses :
             (/\ s # s2
              /\ ExistsOnlyUnder(id, s)
              /\ Decodable(files[s][id])
              /\ CallReturns("update_status", id)
              /\ res'.st = s2)
                 => /\ res'.out = "ok"
                    /\ files'[s2][id] # NoFile
                    /\ files'[s2][id].status = s2
       /\ \A id \in Ids :
             ~(StatusesOf(files', id) \subseteq StatusesOf(files, id))
                 => \/ calls' = calls + 1
                       /\ res'.op \in {"create", "update_status", "update_ticket"}
                    \/ pc = "save" /\ cur.ticket.id = id
                    \/ /\ pc = "closure"
                       /\ cur'.upd.id = id
                       /\ cur.all[cur.idx].status = "blocked"
                       /\ StatusesOf(files', id) \ StatusesOf(files, id) = {"ready"}]_vars

----------------------------------------------------------------------------
(* Properties of the project and category tags *)

Tagging(t) == <<t.id, t.project, t.category>>

(* The (id, project, category) of every document in the store and of every *)
(* ticket the running move has loaded.                                     *)
TagsHeld(fs, c) ==
    UNION {{Tagging(fs[d][i]) : i \in Present(fs, d)} : d \in DirNames}
    \cup {Tagging(c.ticket), Tagging(c.upd)}
    \cup {Tagging(c.all[k]) : k \in 1..Len(c.all)}

----------------------------------------------------------------------------
(* Properties of store root resolution *)

(* The levels, working directory included, that hold a conventional        *)
(* tickets subdirectory.                                                   *)
Holders(tree) ==
    {k \in 1..Len(tree) : \E i \in 1..Len(Locations) : Locations[i] \in tree[k]}

Nearest(tree) == CHOOSE k \in Holders(tree) : \A j \in Holders(tree) : j <= k

(* C28: find_tickets_dir without an explicit root returns a conventional   *)
(* subdirectory that exists in the nearest directory, from the working     *)
(* directory upwards, that holds one, and <cwd>/.tickets only when no      *)
(* directory on the way holds one.                                         *)
C28_NearestAncestor ==
    (walk.out # None /\ walk.repo_root = None)
        => IF Holders(walk.tree) = {}
           THEN walk.out = Some(At(Len(walk.tree), ".tickets"))
           ELSE /\ walk.out[1].level = Nearest(walk.tree)
                /\ walk.out[1].name \in walk.tree[Nearest(walk.tree)]

----------------------------------------------------------------------------
(* Properties of the order of a move's steps *)

(* The document the running move loaded its ticket from. *)
LoadedPath == Path(Root, cur.ticket.id)

(* C29: in move_ticket_to_status to another status, the cascade runs only  *)
(* for a move to closed and with the ticket as it was loaded; the write    *)
(* comes after the cascade has gone through its whole list and puts the    *)
(* ticket under the new status directory; the removal comes after the      *)
(* write, leaves the new document in place and changes at most one other   *)
(* document; and no step of the move before the removal deletes the        *)
(* document the ticket was loaded from.                                    *)
C29_MoveOrder ==
    [][/\ pc \in {"closure", "unblock"}
             => (cur.st = "closed" /\ cur.ticket.status # "closed")
       /\ (pc = "save" /\ pc' = "remove")
             => /\ cur.st = "closed" => cur.idx > Len(cur.all)
                /\ Exists(files', NewPath)
                /\ files'[NewPath.dir][NewPath.name].status = cur.st
       /\ pc \in {"closure", "unblock", "save"}
             => (Exists(files, LoadedPath) => Exists(files', LoadedPath))
       /\ (pc = "remove" /\ pc' = "idle")
             => /\ Exists(files, NewPath)
                /\ Exists(files', NewPath)
                /\ \E d \in DirNames, i \in Ids :
                      /\ Path(d, i) # NewPath
                      /\ OnlyChanges(d, i)]_vars

----------------------------------------------------------------------------
(* Properties of partial-failure tolerance *)

(* Some status directory holds a document that does not decode. *)
HasUndecodable ==
    \E d \in Statuses, i \in Ids : files[d][i] # NoFile /\ ~Decodable(files[d][i])

(* C30: with an undecodable document under some status directory,          *)
(* list_tickets still succeeds, changes no document and returns every      *)
(* decodable document of the status directories; no step of the closure    *)
(* cascade changes an undecodable document; and when a move to closed      *)
(* returns, no decodable document under blocked still lists the closed id. *)
C30_SkipsUndecodable ==
    [][HasUndecodable
          => /\ (pc = "idle" /\ calls' = calls + 1 /\ res'.op = "list")
                   => /\ res'.out = "ok"
                      /\ files' = files
                      /\ \A d \in Statuses, i \in Ids :
                            (files[d][i] # NoFile /\ Decodable(files[d][i]))
                                => \E k \in 1..Len(listed'.out) :
                                      listed'.out[k].t = Decode(files[d][i])
             /\ pc \in {"closure", "unblock"}
                   => \A d \in Statuses, i \in Ids :
                         (files[d][i] # NoFile /\ ~Decodable(files[d][i]))
                             => files'[d][i] = files[d][i]
             /\ (pc = "remove" /\ pc' = "idle" /\ cur.st = "closed" /\ res'.out = "ok")
                   => \A i \in Ids :
                         (files'["blocked"][i] # NoFile /\ Decodable(files'["blocked"][i]))
                             => ~Contains(files'["blocked"][i].deps, cur.ticket.id)]_vars

----------------------------------------------------------------------------
(* Properties of the path resolver *)

(* The file stems in directory d that start with id. *)
PrefixMatches(d, id) ==
    {i \in Present(files, d) : starts_with(FileName(i), id) /\ ends_with_md(FileName(i))}

(* C31: a resolution with a status hint returns <hint>/<id>.md whenever    *)
(* that file exists, whatever other names in the directory start with id;  *)
(* it returns a file of the directory whose name starts with id only when  *)
(* the exact file is not there.                                            *)
C31_ExactBeforePrefix ==
    (resolved.out # None /\ resolved.hint # None)
        => LET d == get_status_dir(resolved.hint[1])
               p == resolved.out[1]
           IN  /\ Exists(files, Path(d, resolved.id)) => p = Path(d, resolved.id)
               /\ (~Exists(files, Path(d, resolved.id)) /\ PrefixMatches(d, resolved.id) # {})
                     => p.dir = d /\ p.name \in PrefixMatches(d, resolved.id)

(* A hinted resolution of an id whose exact file lies in the hinted        *)
(* directory next to a file with a longer name that starts with the id.    *)
C31_Witness ==
    /\ resolved.id = IdA
    /\ resolved.hint = Some("blocked")
    /\ Exists(files, Path("blocked", IdA))
    /\ Exists(files, Path("blocked", IdAB))
    /\ resolved.out = Some(Path("blocked", IdA))

(* The status directories that hold a file named id or starting with id. *)
Holding(id) ==
    {k \in 1..Len(StatusOrder) : PrefixMatches(StatusOrder[k], id) # {}}

(* C32: a resolution without a hint, or with a hint whose directory holds   *)
(* no match, returns a match from the first status directory (in the order *)
(* open, in_progress, closed, blocked, ready, icebox, archive) that holds  *)
(* one, the exact name before a longer one; only when no status directory *)
(* holds a match does it return a path outside the status directories.     *)
C32_FallbackOrder ==
    (/\ resolved.out # None
     /\ \/ resolved.hint = None
        \/ PrefixMatches(get_status_dir(resolved.hint[1]), resolved.id) = {})
        => LET p == resolved.out[1]
               id == resolved.id
           IN  IF Holding(id) # {}
               THEN LET k == CHOOSE j \in Holding(id) : \A l \in Holding(id) : j <= l
                        d == StatusOrder[k]
                    IN  /\ p.dir = d
                        /\ p.name \in PrefixMatches(d, id)
                        /\ Exists(files, Path(d, id)) => p.name = id
               ELSE p.dir \notin Statuses

----------------------------------------------------------------------------
(* Properties of the layout *)

(* This step is a call that runs ensure_status_directories and nothing     *)
(* else that writes.                                                       *)
LayoutCall == calls' = calls + 1 /\ res'.op \in {"layout", "list"}

(* C33: after a call of ensure_status_directories the seven status         *)
(* directories exist; a call made when they all exist changes nothing; and *)
(* no call removes a directory or changes a document that existed before.  *)
C33_LayoutIdempotent ==
    [][LayoutCall
          => /\ Statuses \subseteq dirs'
             /\ dirs \subseteq dirs'
             /\ files' = files
             /\ Statuses \subseteq dirs => dirs' = dirs]_vars

(* A second layout call on a root that also holds a directory of another   *)
(* name and a document under a status directory.                           *)
C33_Witness ==
    /\ calls >= 2
    /\ res.op = "layout"
    /\ OtherDir \in dirs
    /\ Statuses \subseteq dirs
    /\ Exists(files, Path("open", IdA))

----------------------------------------------------------------------------
(* Properties of the files a move touches *)

(* No document of a ticket other than id changes in this step. *)
OnlyDocsOf(id) ==
    \A d \in DirNames, i \in Ids \ {id} : files'[d][i] = files[d][i]

(* C35: the write and the removal of a move change no document of a ticket *)
(* other than the one being moved, and an iteration of its cascade changes *)
(* no document of a ticket other than the one it unblocks; a ticket whose  *)
(* id starts with the moved id is such another ticket.                     *)
C35_OnlyOwnFile ==
    [][/\ pc \in {"save", "remove"} => OnlyDocsOf(cur.ticket.id)
       /\ (pc = "closure" /\ cur.idx <= Len(cur.all))
             => OnlyDocsOf(cur.all[cur.idx].id)
       /\ pc = "unblock" => OnlyDocsOf(cur.upd.id)]_vars

----------------------------------------------------------------------------
(* Properties of the two status changes *)

(* C36: a successful update_status(id, s) with s one of the seven statuses *)
(* leaves the store as move_ticket_to_status(id, s) can leave it: the same *)
(* documents with the same contents, the unblocked dependents and the      *)
(* removal of the old document included.                                   *)
C36_SameAsMove ==
    [][\A id \in Ids, s \in Statuses :
          (CallReturns("update_status", id) /\ res'.st = s /\ res'.out = "ok")
              => files' \in MoveOutcomes(files, id, s)]_vars

----------------------------------------------------------------------------
(* Properties of the closure cascade *)

(* A move to closed is running. *)
Closing == pc # "idle" /\ cur.st = "closed"

(* doc is blocked and lists id. *)
BlockedOn(doc, id) == doc.status = "blocked" /\ Contains(doc.deps, id)

(* C37: no step of a move of A to closed changes a document of another     *)
(* ticket that is not blocked or does not list A; and the document the     *)
(* cascade writes for a ticket it unblocks holds the ticket's deps without *)
(* A, the others all there and in their order.                             *)
C37_CascadeFrame ==
    [][Closing
          => /\ \A d \in DirNames, i \in Ids \ {cur.ticket.id} :
                   (files[d][i] # NoFile /\ ~BlockedOn(files[d][i], cur.ticket.id))
                       => files'[d][i] = files[d][i]
             /\ (pc = "closure" /\ pc' = "unblock")
                   => LET t == cur.all[cur.idx]
                      IN  /\ files'["ready"][t.id] # NoFile
                          /\ files'["ready"][t.id].deps
                                = SelectSeq(t.deps, LAMBDA x : x # cur.ticket.id)]_vars

(* C38: when a move to closed of a ticket A that was loaded as blocked and *)
(* listing itself returns, A has exactly one document, it lies under       *)
(* closed, and neither blocked nor ready holds a document of A.            *)
C38_SelfBlockedSingleCopy ==
    [][(/\ Closing
        /\ pc' = "idle"
        /\ res'.out = "ok"
        /\ BlockedOn(cur.ticket, cur.ticket.id))
          => /\ \A d \in DirNames :
                   files'[d][cur.ticket.id] # NoFile <=> d = "closed"
             /\ files'["closed"][cur.ticket.id].status = "closed"]_vars

----------------------------------------------------------------------------
(* Properties of the dependency lists *)

NoRepeat(s) == \A i, j \in 1..Len(s) : s[i] = s[j] => i = j

(* C39: in every state of a store worked on by create, add_dependency,     *)
(* remove_dependency, status changes and cascades, between and inside the  *)
(* calls, no document's deps holds the same id twice.                      *)
C39_DepsNoRepeat ==
    \A d \in DirNames, i \in Ids : files[d][i] # NoFile => NoRepeat(files[d][i].deps)

(* add_dependency was asked for a dependency the ticket already lists, and *)
(* a document written for that ticket lists it, next to another one.       *)
C39_Witness ==
    /\ res.op = "add_dependency"
    /\ res.out = "exists"
    /\ Contains(got.t.deps, got.dep)
    /\ \E d \in Statuses :
          /\ files[d][got.t.id] # NoFile
          /\ Contains(files[d][got.t.id].deps, got.dep)
          /\ Len(files[d][got.t.id].deps) = 2

(* C40: a move to closed that has entered the cascade returns; the cascade *)
(* goes through the list it took at its start one entry after the other,   *)
(* each once, and leaves the loop only past the last entry; it writes for  *)
(* an entry only when the list shows it blocked on the closing id, so an   *)
(* entry that lists only a ticket the cascade has just made ready is       *)
(* passed over.                                                            *)
C40_SinglePass ==
    /\ (pc = "closure") ~> (pc = "idle")
    /\ [][(pc = "closure" \/ pc = "unblock")
             => /\ cur'.all = cur.all
                /\ cur'.ticket = cur.ticket
                /\ (pc = "closure" /\ pc' = "save")
                      <=> (pc = "closure" /\ cur.idx > Len(cur.all))
                /\ (pc = "closure" /\ pc' = "closure")
                      => /\ cur'.idx = cur.idx + 1
                         /\ ~BlockedOn(cur.all[cur.idx], cur.ticket.id)
                         /\ files' = files
                /\ (pc = "closure" /\ pc' = "unblock")
                      => /\ cur'.idx = cur.idx
                         /\ BlockedOn(cur.all[cur.idx], cur.ticket.id)
                /\ pc = "unblock" => (pc' = "closure" /\ cur'.idx = cur.idx + 1)]_vars

(* The cascade of a closing ticket is through a list of two: the first     *)
(* entry was blocked on the closing id and has been made ready, the second *)
(* lists only that first ticket and got no document under ready.           *)
C40_Witness ==
    /\ pc = "save"
    /\ cur.st = "closed"
    /\ Len(cur.all) = 2
    /\ cur.all[1].id # cur.all[2].id
    /\ BlockedOn(cur.all[1], cur.ticket.id)
    /\ cur.all[2].status = "blocked"
    /\ cur.all[2].deps = <<cur.all[1].id>>
    /\ files["ready"][cur.all[1].id] # NoFile
    /\ files["ready"][cur.all[2].id] = NoFile

====
